---- MODULE Spec2Model ----
(***************************************************************************)
(* JobFlow: the per-phone-number conversation engine, the job lifecycle,   *)
(* the quoting engine and the scheduler/reminder engine, as one state      *)
(* machine.  Every action is one entry point of the program (the SMS       *)
(* webhook, a dashboard or API route, a node-cron callback, an exported    *)
(* scheduler method) and performs the whole handler, in the order of its   *)
(* statements.                                                             *)
(*                                                                         *)
(* Conventions.  A handler body is written as a chain of operators over a  *)
(* "world" record W (the database tables, the scheduler's registry and the *)
(* armed cron tasks, and the list of messages handed to sendSMS so far by  *)
(* the running handler).  Time is counted in whole hours since day 0,      *)
(* server-local; calendar dates are day numbers.  SQL NULL / JS undefined  *)
(* is NoId (0) for ids, NoNum (-1) for numbers and dates, "NULL" for text. *)
(***************************************************************************)
EXTENDS Integers, Sequences, FiniteSets, TLC

(***************************************************************************)
(* Bounds of the model                                                     *)
(***************************************************************************)
MaxJobs == 2
MaxDay == 2
YearLen == 2
MaxRuns == 2
MaxTasks == 2

HoursPerDay == 24

NoId == 0
NoNum == -1

(***************************************************************************)
(* Phone numbers and demo profiles (scripts/seed.js).                      *)
(***************************************************************************)
PlumberPhone == "+15551234567"
ElectricianPhone == "+15559876543"
HandymanPhone == "+15555555555"
ContractorPhones == {PlumberPhone, ElectricianPhone, HandymanPhone}
CustomerPhones == {"+15558881234"}
Phones == ContractorPhones \cup CustomerPhones

Statuses ==
  {"pending", "quoted", "approved", "scheduled", "in_progress", "completed",
   "cancelled", "contractor_passed", "no_contractors_available"}

ConvStates ==
  {"IDLE", "CONTRACTOR_ONBOARDING", "CUSTOMER_INTAKE", "AWAITING_QUOTE_APPROVAL",
   "AWAITING_CONTRACTOR_RESPONSE", "JOB_SCHEDULED"}

(***************************************************************************)
(* Message bodies.  A body is its text in trimmed upper-case form plus two *)
(* flags: whether the body as sent is in lower case, and whether it has    *)
(* surrounding blanks.  trim and toUpperCase clear the flags; a comparison *)
(* with a literal is a comparison with the clean body.                     *)
(***************************************************************************)
Texts == {"CANCEL", "YES", "NO", "A", "X", "OTW", "JOB DONE", "MY SINK LEAKS"}

\* Each text as typed in upper case, and two commands also in lower case
\* between blanks.
Bodies ==
  {[text |-> t, lower |-> FALSE, padded |-> FALSE] : t \in Texts}
    \cup {[text |-> t, lower |-> TRUE, padded |-> TRUE] : t \in {"CANCEL", "A"}}

trimNothing(m) == m

trim(m) == [m EXCEPT !.padded = FALSE]

toUpperCaseNothing(m) == m

toUpperCase(m) == [m EXCEPT !.lower = FALSE]

Lit(t) == [text |-> t, lower |-> FALSE, padded |-> FALSE]

\* The word that starts contractor onboarding, and what a new contractor
\* answers at each onboarding step: the expected answer or one that the step
\* refuses.
SetupBodies == {Lit("SETUP")}

\* The short forms of a customer's answer to a quote, and the long forms in
\* lower case between blanks.
ReplyBodies ==
  {Lit("Y"), Lit("N")}
    \cup {[text |-> t, lower |-> TRUE, padded |-> TRUE] : t \in {"YES", "NO"}}

\* A contractor's custom quote, of an amount that is a job's id and of one that
\* is not, and an invoice, well formed and without an amount.
CommandBodies ==
  {Lit(t) : t \in {"Q 1", "Q 150", "INVOICE 150 FIXED PIPE", "INVOICE X"}}

OnboardingAnswers(step) ==
  CASE step = "business_name" -> {"ACME"}
    [] step = "trade_type" -> {"PLUMBER"}
    [] step = "service_area" -> {"90210", "75"}
    [] step = "services" -> {"PIPE REPAIR"}
    [] step = "service_fee" -> {"75", "75 DOLLARS", "A", "-5"}
    [] step = "hourly_rate" -> {"100", "A", "-5"}
    [] step = "emergency_markup" -> {"25", "0", "A", "-5"}
    [] step = "hours" -> {"24/7"}
    [] OTHER -> {}

OnboardingBodies(step) ==
  {Lit(t) : t \in OnboardingAnswers(step)} \cup {Lit("CANCEL")}

\* The characters of a message.
Typed(m) ==
  IF ~m.lower THEN m.text
  ELSE CASE m.text = "PLUMBER" -> "plumber"
         [] m.text = "PIPE REPAIR" -> "pipe repair"
         [] m.text = "ACME" -> "acme"
         [] m.text = "CANCEL" -> "cancel"
         [] m.text = "A" -> "a"
         [] OTHER -> m.text

toLowerCase(m) == [m EXCEPT !.lower = TRUE]

\* A parse that reads 0 where there is no number.
parseFloatOrZero(m) ==
  CASE m.text \in {"75", "75 DOLLARS"} -> 75
    [] m.text = "100" -> 100
    [] m.text = "25" -> 25
    [] m.text = "-5" -> -5
    [] m.text = "90210" -> 90210
    [] OTHER -> 0

\* parseFloat(message): the number a message starts with, NoNum for NaN.
parseFloat(m) ==
  CASE m.text \in {"75", "75 DOLLARS"} -> 75
    [] m.text = "-5" -> -5
    [] m.text = "100" -> 100
    [] m.text = "25" -> 25
    [] m.text = "0" -> 0
    [] m.text = "90210" -> 90210
    [] OTHER -> NoNum

\* String.prototype.startsWith, for the two prefixes the handlers test.
startsWith(m, prefix) ==
  /\ ~m.lower
  /\ ~m.padded
  /\ CASE prefix = "Q " -> m.text \in {"Q 1", "Q 150"}
       [] prefix = "INVOICE " -> m.text \in {"INVOICE 150 FIXED PIPE", "INVOICE X"}
       [] OTHER -> FALSE

\* parseFloat of what follows the prefix of a command, NoNum for NaN.
amountAfterPrefix(m) ==
  CASE m.text = "Q 1" -> 1
    [] m.text = "Q 150" -> 150
    [] m.text = "INVOICE 150 FIXED PIPE" -> 150
    [] OTHER -> NoNum

\* What follows the amount of an INVOICE command, "" when nothing does.
descriptionAfterAmount(m) == IF m.text = "INVOICE 150 FIXED PIPE" THEN "FIXED PIPE" ELSE ""

\* message.match(/\b\d{5}\b/): the five-digit group, "NULL" without one.
zipMatch(m) == IF m.text = "90210" THEN "90210" ELSE "NULL"

\* The needles the handlers search for that each text contains.
Needles(t) ==
  CASE t = "JOB DONE" -> {"JOB DONE"}
    [] t = "ON THE WAY" -> {"ON THE WAY"}
    [] t = "SETUP" -> {"SETUP"}
    [] OTHER -> {}

\* String.prototype.includes, for an upper-case needle.
includes(m, needle) == ~m.lower /\ needle \in Needles(m.text)

(***************************************************************************)
(* Quoting engine (src/src/quoting.js).  Fees and rates are whole dollars, *)
(* the emergency markup is a whole percentage, costs are cents.            *)
(***************************************************************************)
MaxFirst(a, b) == a

Max(a, b) == IF a >= b THEN a ELSE b

\* Math.round(n * k / d) for naturals, without leaving 32 bits.
RoundMulDiv(n, k, d) ==
  LET q == n \div d
      r == n % d
  IN  k * q + ((2 * k * r + d) \div (2 * d))

\* categoryComplexity: hours in half hours, the multiplier in tenths.
categoryComplexity(category, complexity) ==
  CASE category = "plumbing" /\ complexity = "simple" -> [hours2 |-> 2, cm10 |-> 10]
    [] category = "plumbing" /\ complexity = "moderate" -> [hours2 |-> 5, cm10 |-> 13]
    [] category = "plumbing" /\ complexity = "complex" -> [hours2 |-> 8, cm10 |-> 16]
    [] category = "electrical" /\ complexity = "simple" -> [hours2 |-> 3, cm10 |-> 12]
    [] category = "electrical" /\ complexity = "moderate" -> [hours2 |-> 6, cm10 |-> 15]
    [] category = "electrical" /\ complexity = "complex" -> [hours2 |-> 12, cm10 |-> 20]
    [] category = "hvac" /\ complexity = "simple" -> [hours2 |-> 2, cm10 |-> 11]
    [] category = "hvac" /\ complexity = "moderate" -> [hours2 |-> 6, cm10 |-> 14]
    [] category = "hvac" /\ complexity = "complex" -> [hours2 |-> 16, cm10 |-> 18]
    [] category = "general_handyman" /\ complexity = "simple" -> [hours2 |-> 2, cm10 |-> 9]
    [] category = "general_handyman" /\ complexity = "moderate" -> [hours2 |-> 4, cm10 |-> 11]
    [] category = "general_handyman" /\ complexity = "complex" -> [hours2 |-> 8, cm10 |-> 13]
    [] category = "appliance_repair" /\ complexity = "simple" -> [hours2 |-> 2, cm10 |-> 10]
    [] category = "appliance_repair" /\ complexity = "moderate" -> [hours2 |-> 4, cm10 |-> 12]
    [] category = "appliance_repair" /\ complexity = "complex" -> [hours2 |-> 6, cm10 |-> 15]
    [] category = "roofing" /\ complexity = "simple" -> [hours2 |-> 4, cm10 |-> 13]
    [] category = "roofing" /\ complexity = "moderate" -> [hours2 |-> 12, cm10 |-> 17]
    [] category = "roofing" /\ complexity = "complex" -> [hours2 |-> 32, cm10 |-> 25]
    [] category = "flooring" /\ complexity = "simple" -> [hours2 |-> 4, cm10 |-> 11]
    [] category = "flooring" /\ complexity = "moderate" -> [hours2 |-> 12, cm10 |-> 14]
    [] category = "flooring" /\ complexity = "complex" -> [hours2 |-> 24, cm10 |-> 17]
    [] OTHER -> [hours2 |-> 4, cm10 |-> 11]

urgencyMultipliersDescending(urgency) ==
  CASE urgency = "low" -> 25
    [] urgency = "medium" -> 22
    [] OTHER -> 20

\* urgencyMultipliers, in twentieths (1.0, 1.1, 1.25, 1.0; 1.1 when unknown).
urgencyMultipliers(urgency) ==
  CASE urgency = "low" -> 20
    [] urgency = "medium" -> 22
    [] urgency = "high" -> 25
    [] urgency = "emergency" -> 20
    [] OTHER -> 22

\* The keywords of complexityKeywords that a problem description contains.
ProblemKeywords(problem) ==
  CASE problem = "kitchen sink is leaking" -> {"leak"}
    [] problem = "install a ceiling fan" -> {"install", "ceiling fan"}
    [] problem = "major remodel, assemble shelves" -> {"major", "remodel", "assemble"}
    [] problem = "tighten a door handle" -> {"tighten", "handle"}
    [] OTHER -> {}

complexityKeywords(category, level) ==
  CASE category = "plumbing" /\ level = "simple" ->
         {"faucet", "leak", "drip", "clog", "running", "flush", "handle"}
    [] category = "plumbing" /\ level = "moderate" ->
         {"install", "replace", "pipe", "fitting", "valve", "fixture"}
    [] category = "plumbing" /\ level = "complex" ->
         {"main", "sewer", "remodel", "reroute", "whole house", "major"}
    [] category = "electrical" /\ level = "simple" ->
         {"outlet", "switch", "light", "fixture", "bulb", "fuse"}
    [] category = "electrical" /\ level = "moderate" ->
         {"circuit", "breaker", "wire", "install", "ceiling fan"}
    [] category = "electrical" /\ level = "complex" ->
         {"panel", "rewire", "upgrade", "service", "whole house", "220"}
    [] category = "hvac" /\ level = "simple" ->
         {"filter", "thermostat", "maintenance", "clean", "check"}
    [] category = "hvac" /\ level = "moderate" ->
         {"repair", "fix", "part", "component", "tune", "service"}
    [] category = "hvac" /\ level = "complex" ->
         {"install", "replace", "new system", "ductwork", "whole house"}
    [] level = "simple" -> {"hang", "mount", "fix", "adjust", "tighten", "small"}
    [] level = "moderate" -> {"install", "repair", "replace", "build", "assemble"}
    [] OTHER -> {"remodel", "construction", "major", "multiple", "project"}

assessJobComplexity(problem, category) ==
  LET kw == ProblemKeywords(problem)
  IN  IF kw \cap complexityKeywords(category, "complex") # {} THEN "complex"
      ELSE IF kw \cap complexityKeywords(category, "moderate") # {} THEN "moderate"
      ELSE IF kw \cap complexityKeywords(category, "simple") # {} THEN "simple"
      ELSE "moderate"

\* The fallback quote of the catch block.
FallbackQuote == [minCost |-> 10000, maxCost |-> 25000, averageCost |-> 175]

generateQuote(job, contractor) ==
  IF job.problem_description = "NULL" THEN FallbackQuote
  ELSE
  LET category == job.service_category
      urgencyLevel == job.urgency_level
      complexity == assessJobComplexity(job.problem_description, category)
      complexityData == categoryComplexity(category, complexity)
      baseFee == IF contractor.base_service_fee = 0 THEN 75 ELSE contractor.base_service_fee
      hourlyRate == IF contractor.hourly_rate = 0 THEN 100 ELSE contractor.hourly_rate
      markup == IF contractor.emergency_markup \in {0, NoNum} THEN 50
                ELSE contractor.emergency_markup
      em100 == IF urgencyLevel = "emergency" THEN 100 + markup ELSE 100
      Final(finalMinCost, finalMaxCost) ==
        [minCost |-> finalMinCost, maxCost |-> finalMaxCost,
         averageCost |-> (finalMinCost + finalMaxCost + 100) \div 200]
      Floor(minCost, maxCost) == Final(minCost, Max(maxCost, minCost + 5000))
      \* n is twice (baseFee + hourlyRate * hours), times the multipliers'
      \* numerators; the total in dollars is n / 40000
      Range(n, absoluteMinimum) ==
        Floor(Max(100 * RoundMulDiv(n, 17, 800000), absoluteMinimum),
              100 * RoundMulDiv(n, 23, 800000))
      Total(data) ==
        Range((2 * baseFee + hourlyRate * data.hours2)
                * data.cm10 * urgencyMultipliers(urgencyLevel) * em100,
              100 * baseFee + 50 * hourlyRate)
  IN  Total(complexityData)

\* The needles of calculateServiceMatch that a service name contains.
ServiceNeedles(service) ==
  CASE service = "pipe repair" -> {"pipe", "repair", "air"}
    [] service = "drain cleaning" -> {"drain"}
    [] service = "water heater installation" -> {"water", "heat", "install"}
    [] service = "emergency plumbing" -> {"plumbing", "plumb"}
    [] service = "outlet installation" -> {"install"}
    [] service = "ceiling fan installation" -> {"install"}
    [] service = "electrical panel upgrade" -> {"electrical", "electric"}
    [] service = "circuit repair" -> {"repair", "air"}
    [] service = "minor repairs" -> {"repair", "air"}
    [] service = "door installation" -> {"install"}
    [] OTHER -> {}

categoryMatches(category) ==
  CASE category = "plumbing" -> {"pipe", "drain", "water", "plumb"}
    [] category = "electrical" -> {"electric", "wire", "power", "light"}
    [] category = "hvac" -> {"heat", "cool", "air", "hvac", "furnace"}
    [] category = "general_handyman" -> {"repair", "fix", "install", "maintenance"}
    [] OTHER -> {}

\* calculateServiceMatch, in tenths.
calculateServiceMatch(requestedCategory, services) ==
  LET category == IF requestedCategory = "HVAC" THEN "hvac" ELSE requestedCategory
      has(needle) == \E i \in 1..Len(services) : needle \in ServiceNeedles(services[i])
  IN  IF Len(services) = 0 THEN 5
      ELSE IF has(category) THEN 10
      ELSE IF \E k \in categoryMatches(category) : has(k) THEN 8
      ELSE 3

\* The score of findBestContractor's map callback, times 1000.
ContractorScore(job, contractor) ==
  LET priceScore == Max(0, 1000 - generateQuote(job, contractor).averageCost)
      serviceMatch == calculateServiceMatch(job.service_category, contractor.services_offered)
      availabilityScore == IF contractor.is_active THEN 1 ELSE 0
      emergencyScore2 == IF job.urgency_level = "emergency"
                            /\ contractor.emergency_markup # NoNum THEN 2 ELSE 1
  IN  priceScore * 40 + serviceMatch * 3000 + availabilityScore * 20000
        + emergencyScore2 * 5000

\* findBestContractor: the index, in the candidate list, of the first candidate
\* of maximal score (Array.prototype.sort is stable); 0 for an empty list.
LastBestIndex(job, candidates) ==
  LET Last(score) ==
        CHOOSE i \in 1..Len(candidates) :
          /\ \A j \in 1..Len(candidates) : score[j] <= score[i]
          /\ \A j \in (i + 1)..Len(candidates) : score[j] < score[i]
  IN  IF Len(candidates) = 0 THEN 0
      ELSE Last([j \in 1..Len(candidates) |-> ContractorScore(job, candidates[j])])

FirstIndex(job, candidates) == IF Len(candidates) = 0 THEN 0 ELSE 1

BestIndex(job, candidates) ==
  LET First(score) ==
        CHOOSE i \in 1..Len(candidates) :
          /\ \A j \in 1..Len(candidates) : score[j] <= score[i]
          /\ \A j \in 1..(i - 1) : score[j] < score[i]
  IN  IF Len(candidates) = 0 THEN 0
      ELSE First([j \in 1..Len(candidates) |-> ContractorScore(job, candidates[j])])

findBestContractor(job, candidates) ==
  LET Best(i) ==
        IF i = 0 THEN [contractor |-> NoId, quote |-> FallbackQuote]
        ELSE [contractor |-> candidates[i].id, quote |-> generateQuote(job, candidates[i])]
  IN  Best(BestIndex(job, candidates))

\* AIConversationEngine.generateQuote: the simple model, 1 to 3 hours.
simpleQuote(urgency, contractor) ==
  LET k == CASE urgency = "low" -> 100
             [] urgency = "medium" -> 120
             [] urgency = "high" -> 140
             [] urgency = "emergency" -> 100 + contractor.emergency_markup
             [] OTHER -> 120
      baseCost == contractor.base_service_fee
      hourlyRate == contractor.hourly_rate
  IN  [minCost |-> 100 * RoundMulDiv(baseCost + hourlyRate * 1, k, 100),
       maxCost |-> 100 * RoundMulDiv(baseCost + hourlyRate * 3, k, 100)]

(***************************************************************************)
(* State                                                                   *)
(***************************************************************************)
VARIABLES
  contractors,  \* table contractors: a sequence of rows, id = position
  customers,    \* table customers: a sequence of rows, id = position
  jobs,         \* table jobs: a sequence of rows, id = position
  conv,         \* table conversations: phone number -> [state, context]
  registry,     \* JobScheduler.jobs: the Map from key to cron task
  tasks,        \* the cron tasks created by cron.schedule, in creation order
  now,          \* wall clock, hours since 00:00 of day 0
  sent,         \* the messages the gateway accepted from the last handler, in order
  gateway,      \* whether the SMS gateway accepts messages
  awaiting,     \* the webhook handlers suspended at the language model's call
  lastOp        \* the last handler run: its name, arguments and response

vars ==
  <<contractors, customers, jobs, conv, registry, tasks, now, sent, gateway, awaiting, lastOp>>

\* A conversation context: the JSON object's keys, an absent key being NoId / "NULL".
EmptyContext ==
  [customer_id |-> NoId, job_id |-> NoId, contractor_id |-> NoId,
   problem_description |-> "NULL", service_category |-> "NULL", urgency_level |-> "NULL",
   step |-> "NULL", business_name |-> "NULL", trade_type |-> "NULL",
   service_area_zip |-> "NULL", services_offered |-> <<>>, base_service_fee |-> NoNum,
   hourly_rate |-> NoNum, emergency_markup |-> NoNum, available_hours |-> "NULL"]

Today == now \div HoursPerDay

\* An hour count as the (hour, day of month and month) a cron expression keeps.
dateToCronExpression(t) ==
  [hour |-> t % HoursPerDay, date |-> (t \div HoursPerDay) % YearLen]

CronMatches(expr, t) == expr = dateToCronExpression(t)

(***************************************************************************)
(* The world a handler works on, and the database helpers (src/src/db.js). *)
(***************************************************************************)
World ==
  [contractors |-> contractors, customers |-> customers, jobs |-> jobs, conv |-> conv,
   registry |-> registry, tasks |-> tasks, sent |-> <<>>, up |-> gateway]

SeqToSet(s) == {s[i] : i \in 1..Len(s)}

\* SELECT ... WHERE phone_number = ?: the id of the row, NoId when there is none.
getContractorByPhone(W, phone) ==
  LET ids == {i \in 1..Len(W.contractors) : W.contractors[i].phone_number = phone}
  IN  IF ids = {} THEN NoId ELSE CHOOSE i \in ids : TRUE

getContractorById(W, id) == IF id \in 1..Len(W.contractors) THEN id ELSE NoId

getCustomerByPhone(W, phone) ==
  LET ids == {i \in 1..Len(W.customers) : W.customers[i].phone_number = phone}
  IN  IF ids = {} THEN NoId ELSE CHOOSE i \in ids : TRUE

\* SELECT * FROM customers WHERE id = ?
queryCustomerById(W, id) == IF id \in 1..Len(W.customers) THEN id ELSE NoId

\* db exports no getCustomerById and stmts holds no getCustomerById: the optional
\* calls db.getCustomerById?.(id) and db.stmts.getCustomerById?.get(id) are undefined.
getCustomerById(W, id) == NoId

getJobById(W, id) == IF id \in 1..Len(W.jobs) THEN id ELSE NoId

\* The ascending sequence of the numbers of a finite set.
RECURSIVE Ascending(_)
Ascending(S) ==
  IF S = {} THEN <<>>
  ELSE LET m == CHOOSE x \in S : \A y \in S : x <= y
       IN  <<m>> \o Ascending(S \ {m})

\* findAvailableContractors: the active rows of a zip code, in rowid order.
findAvailableContractors(W, zip) ==
  Ascending({i \in 1..Len(W.contractors) :
               W.contractors[i].service_area_zip = zip /\ W.contractors[i].is_active})

\* getAllContractors: the active rows, in rowid order.
getAllContractors(W) ==
  Ascending({i \in 1..Len(W.contractors) : W.contractors[i].is_active})

updateJobStatus(W, jobId, status) ==
  IF jobId \in 1..Len(W.jobs)
  THEN [W EXCEPT !.jobs[jobId].status = status]
  ELSE W

assignJobToNobody(W, jobId, contractorId) == W

assignJobToContractor(W, jobId, contractorId) ==
  IF jobId \in 1..Len(W.jobs)
  THEN [W EXCEPT !.jobs[jobId].contractor_id = contractorId]
  ELSE W

\* stmts.scheduleJob.run(date, time, status, id) -> scheduleJob(id, date, time, status)
scheduleJobRow(W, jobId, date, time, status) ==
  IF jobId \in 1..Len(W.jobs)
  THEN [W EXCEPT !.jobs[jobId].scheduled_date = date,
                 !.jobs[jobId].scheduled_time = time,
                 !.jobs[jobId].status = status]
  ELSE W

\* Rows of one created_at second come in an order that SQLite does not fix: by
\* rowid upwards (tieAsc) or downwards.
RECURSIVE OrderByCreatedAtDesc(_, _, _)
OrderByCreatedAtDesc(W, ids, tieAsc) ==
  LET before(i, j) ==
        \/ W.jobs[i].created_at > W.jobs[j].created_at
        \/ /\ W.jobs[i].created_at = W.jobs[j].created_at
           /\ IF tieAsc THEN i < j ELSE i > j
      Rest(first) == <<first>> \o OrderByCreatedAtDesc(W, ids \ {first}, tieAsc)
  IN  IF ids = {} THEN <<>>
      ELSE Rest(CHOOSE i \in ids : \A j \in ids \ {i} : before(i, j))

Reverse(s) == [i \in 1..Len(s) |-> s[Len(s) + 1 - i]]

getJobsByContractorOldestFirst(W, contractorId, tieAsc) ==
  Reverse(OrderByCreatedAtDesc(
            W, {i \in 1..Len(W.jobs) : W.jobs[i].contractor_id = contractorId}, tieAsc))

\* getJobsByContractor: ... WHERE j.contractor_id = ? ORDER BY j.created_at DESC
getJobsByContractor(W, contractorId, tieAsc) ==
  OrderByCreatedAtDesc(
    W, {i \in 1..Len(W.jobs) : W.jobs[i].contractor_id = contractorId}, tieAsc)

\* getJobsByContractor(id).find(test): the first row of the result among the
\* rows that pass the test (matching), NoId when none does.
FirstJobOfContractor(W, contractorId, matching, tieAsc) ==
  LET Find(rows) ==
        IF \A k \in 1..Len(rows) : rows[k] \notin matching THEN NoId
        ELSE rows[CHOOSE k \in 1..Len(rows) :
                    /\ rows[k] \in matching
                    /\ \A l \in 1..(k - 1) : rows[l] \notin matching]
  IN  Find(getJobsByContractor(W, contractorId, tieAsc))

\* An update that leaves the stored context when it writes IDLE.
updateConversationStateOnly(W, phone, state, context) ==
  IF state = "IDLE" THEN [W EXCEPT !.conv[phone].state = state]
  ELSE [W EXCEPT !.conv[phone] = [state |-> state, context |-> context]]

updateConversationState(W, phone, state, context) ==
  [W EXCEPT !.conv[phone] = [state |-> state, context |-> context]]

(***************************************************************************)
(* Notification gateway (src/src/sms.js).  A message is who it goes to,    *)
(* which template it is, the job it is about, the business name its text   *)
(* contains ("" when none) and the estimate its text carries.              *)
(***************************************************************************)
Msg(to, kind, jobId, name, lo, hi) ==
  [to |-> to, kind |-> kind, job |-> jobId, name |-> name, min |-> lo, max |-> hi]

\* A send whose failure takes back the handler's writes to the jobs table.
sendSMSOrUndo(W, to, kind, jobId, name, lo, hi) ==
  IF W.up THEN [W EXCEPT !.sent = Append(@, Msg(to, kind, jobId, name, lo, hi))]
  ELSE [W EXCEPT !.jobs = jobs]

\* sendSMS never throws: when client.messages.create rejects, the catch block
\* returns {success: false} and nothing is recorded.
sendSMS(W, to, kind, jobId, name, lo, hi) ==
  IF W.up THEN [W EXCEPT !.sent = Append(@, Msg(to, kind, jobId, name, lo, hi))] ELSE W

sendJobApprovalNotification(W, customerPhone, contractorId, jobId) ==
  sendSMS(W, customerPhone, "job_approval", jobId,
          W.contractors[contractorId].business_name, NoNum, NoNum)

sendNoRejectionNotification(W, customerPhone, jobId) == W

sendJobRejectionNotification(W, customerPhone, jobId) ==
  sendSMS(W, customerPhone, "job_rejection", jobId, "", NoNum, NoNum)

sendContractorNotification(W, contractorPhone, jobId, lo, hi) ==
  sendSMS(W, contractorPhone, "new_job_request", jobId, "", lo, hi)

sendOnTheWayNotification(W, customerPhone, businessName, jobId) ==
  sendSMS(W, customerPhone, "on_the_way", jobId, businessName, NoNum, NoNum)

sendInvoiceRequest(W, contractorPhone, jobId) ==
  sendSMS(W, contractorPhone, "invoice_request", jobId, "", NoNum, NoNum)

\* updateJobQuote(jobId, quote): UPDATE jobs SET final_quote = ? WHERE id = ?
updateJobQuote(W, jobId, quote) ==
  IF jobId \in 1..Len(W.jobs) THEN [W EXCEPT !.jobs[jobId].final_quote = quote] ELSE W

sendCustomQuoteToCustomer(W, customerPhone, contractorName, customQuote, jobId) ==
  sendSMS(W, customerPhone, "custom_quote", jobId, contractorName, customQuote, customQuote)

sendInvoiceToCustomer(W, customerPhone, contractorName, amount, jobId) ==
  sendSMS(W, customerPhone, "invoice", jobId, contractorName, amount, amount)

\* parseContractorResponse(message): the action, and the amount of a custom
\* quote or an invoice.
parseContractorResponse(m) ==
  LET upperMessage == trim(toUpperCase(m))
      amount == amountAfterPrefix(upperMessage)
      Parsed(action) == [action |-> action, amount |-> amount,
                         description |-> descriptionAfterAmount(upperMessage)]
      unknown == [action |-> "unknown", amount |-> NoNum, description |-> ""]
  IN  IF upperMessage = Lit("A") THEN [unknown EXCEPT !.action = "approve"]
      ELSE IF upperMessage = Lit("C") THEN [unknown EXCEPT !.action = "call_customer"]
      ELSE IF upperMessage = Lit("X") THEN [unknown EXCEPT !.action = "pass"]
      ELSE IF startsWith(upperMessage, "Q ")
      THEN IF amount # NoNum /\ amount > 0 THEN Parsed("custom_quote") ELSE unknown
      ELSE IF startsWith(upperMessage, "INVOICE ")
      THEN IF amount # NoNum /\ amount > 0 /\ descriptionAfterAmount(upperMessage) # ""
           THEN Parsed("invoice") ELSE unknown
      ELSE unknown

(***************************************************************************)
(* Scheduler (src/src/scheduler.js).  A cron task keeps the expression it  *)
(* was created with (hour, day of the year: the expression has no year),   *)
(* whether it is still armed (not destroyed), whether it is due (the clock *)
(* has reached a matching hour and its callback has not run yet) and how   *)
(* often its callback has run.                                             *)
(***************************************************************************)
Key(kind, jobId) == [kind |-> kind, job |-> jobId]

EmptyRegistry == [k \in {} |-> NoId]

MapSet(m, k, v) == [x \in DOMAIN m \cup {k} |-> IF x = k THEN v ELSE m[x]]

MapDelete(m, k) == [x \in DOMAIN m \ {k} |-> m[x]]

\* cron.schedule(expression, callback, {scheduled: false}); cronJob.start();
\* this.jobs.set(key, cronJob)
cronSchedule(W, kind, jobId, t) ==
  LET task == [kind |-> kind, job |-> jobId, expr |-> dateToCronExpression(t),
               armed |-> TRUE, due |-> FALSE, runs |-> 0]
  IN  [W EXCEPT !.tasks = Append(@, task),
                !.registry = MapSet(@, Key(kind, jobId), Len(W.tasks) + 1)]

\* The hour of a scheduled_time text; NoNum for text that is no time ("TBD").
ScheduledTimes == {"09:00", "NULL", "TBD"}

HourOf(time) == IF time = "09:00" THEN 9 ELSE NoNum

\* The instant of the day-before reminder of a row: 18:00 on the eve.
DayBeforeInstant(row) == (row.scheduled_date - 1) * HoursPerDay + 18

\* The instant of the day-of reminder: two hours before the time, 08:00 without.
DayOfInstant(row) ==
  IF row.scheduled_time = "NULL" THEN row.scheduled_date * HoursPerDay + 8
  ELSE row.scheduled_date * HoursPerDay + HourOf(row.scheduled_time) - 2

\* scheduleReminders(job, contractor, customer); job is a row read at time t.
scheduleReminders(W, jobId, row, t) ==
  LET hasDate == row.scheduled_date # NoNum
      validTime == row.scheduled_time = "NULL" \/ HourOf(row.scheduled_time) # NoNum
      W1 == IF hasDate /\ DayBeforeInstant(row) > t
            THEN cronSchedule(W, "day_before", jobId, DayBeforeInstant(row))
            ELSE W
  IN  IF hasDate /\ validTime /\ DayOfInstant(row) > t
      THEN cronSchedule(W1, "day_of", jobId, DayOfInstant(row))
      ELSE W1

\* task.destroy(): the task never runs again and is forgotten; the tasks after
\* it move up one place.
destroy(W, i) ==
  [W EXCEPT !.tasks = [n \in 1..(Len(W.tasks) - 1) |->
                         IF n < i THEN W.tasks[n] ELSE W.tasks[n + 1]],
            !.registry = [k \in DOMAIN W.registry |->
                            IF W.registry[k] > i THEN W.registry[k] - 1 ELSE W.registry[k]]]

\* this.jobs.get(key).destroy(); this.jobs.delete(key), for one key
destroyKey(W, key) ==
  IF key \in DOMAIN W.registry
  THEN LET W1 == destroy(W, W.registry[key])
       IN  [W1 EXCEPT !.registry = MapDelete(@, key)]
  ELSE W

cancelJobReminders(W, jobId) ==
  destroyKey(destroyKey(W, Key("day_before", jobId)), Key("day_of", jobId))

\* stop(): destroy every registered task and clear the registry.
stop(W) ==
  [W EXCEPT !.tasks = SelectSeq([i \in 1..Len(W.tasks) |->
                                   [W.tasks[i] EXCEPT !.armed =
                                      ~\E k \in DOMAIN W.registry : W.registry[k] = i]],
                                LAMBDA task : task.armed),
            !.registry = EmptyRegistry]

\* scheduleJob(jobId, contractorId, scheduledDate, scheduledTime): the world
\* after it and its result.  Binding an undefined time makes the statement throw.
scheduleJob(W, jobId, date, time, t) ==
  IF time = "undefined" THEN [world |-> W, success |-> FALSE, error |-> "exception"]
  ELSE
  LET W1 == scheduleJobRow(W, jobId, date, time, "scheduled")
      job == getJobById(W1, jobId)
      \* the contractor is looked up by phone number with the job's contractor id
      contractor == IF job = NoId THEN NoId
                    ELSE getContractorByPhone(W1, ToString(W1.jobs[job].contractor_id))
      customer == IF job = NoId THEN NoId ELSE getCustomerById(W1, W1.jobs[job].customer_id)
  IN  IF job # NoId /\ contractor # NoId /\ customer # NoId
      THEN [world |-> scheduleReminders(
                        sendSMS(sendSMS(W1, W1.customers[customer].phone_number,
                                        "schedule_confirmation", jobId, "", NoNum, NoNum),
                                W1.contractors[contractor].phone_number,
                                "schedule_confirmation", jobId, "", NoNum, NoNum),
                        jobId, W1.jobs[job], t),
            success |-> TRUE, error |-> ""]
      ELSE [world |-> W1, success |-> FALSE, error |-> "missing data"]

\* The contractor the reminder and reschedule code looks up: a fixed number.
PlaceholderPhone == "+1234567890"

\* rescheduleJob(jobId, newDate, newTime): reminders are re-registered from the
\* row read before the update.
rescheduleJob(W, jobId, newDate, newTime, t) ==
  LET job == getJobById(W, jobId)
      W1 == scheduleJobRow(W, jobId, newDate, newTime, "scheduled")
      contractor == getContractorByPhone(W1, PlaceholderPhone)
      customer == IF job = NoId THEN NoId ELSE getCustomerById(W1, W.jobs[job].customer_id)
  IN  IF job = NoId THEN [world |-> W, success |-> FALSE, error |-> "Job not found"]
      ELSE IF newTime = "undefined"
      THEN [world |-> W, success |-> FALSE, error |-> "exception"]
      ELSE IF contractor # NoId /\ customer # NoId
      THEN [world |-> scheduleReminders(
                        cancelJobReminders(
                          sendSMS(sendSMS(W1, W1.customers[customer].phone_number,
                                          "rescheduled", jobId, "", NoNum, NoNum),
                                  W1.contractors[contractor].phone_number,
                                  "rescheduled", jobId, "", NoNum, NoNum),
                          jobId),
                        jobId, W.jobs[job], t),
            success |-> TRUE, error |-> ""]
      ELSE [world |-> W1, success |-> TRUE, error |-> ""]

\* Whether the jobs table has a column completion_date.  The CREATE TABLE of
\* initDb, the only schema the program installs, has none.
HasCompletionDate == FALSE

\* markJobCompleted(jobId, contractorPhone).  The status is written first; the
\* UPDATE of completion_date then throws for want of the column, the catch
\* block returns the failure, and the steps after it are not reached.
markJobCompleted(W, jobId, contractorPhone, t) ==
  LET job == getJobById(W, jobId)
      contractor == getContractorByPhone(W, contractorPhone)
      invalid == [world |-> W, success |-> FALSE, error |-> "Invalid job or contractor"]
  IN  IF job = NoId \/ contractor = NoId THEN invalid
      ELSE IF W.jobs[job].contractor_id # contractor THEN invalid
      ELSE
      LET W1 == updateJobStatus(W, jobId, "completed")
          W2 == [W1 EXCEPT !.jobs[jobId].completion_date = t]
          W3 == sendInvoiceRequest(W2, contractorPhone, jobId)
          tomorrow == (t \div HoursPerDay + 1) * HoursPerDay + 18
      IN  IF ~HasCompletionDate
          THEN [world |-> W1, success |-> FALSE,
                error |-> "no such column: completion_date"]
          ELSE [world |-> cronSchedule(W3, "followup", jobId, tomorrow), success |-> TRUE,
                error |-> ""]

\* handleOnTheWayNotification(contractorPhone, message)
handleOnTheWayNotification(W, contractorPhone, tieAsc, t) ==
  LET contractor == getContractorByPhone(W, contractorPhone)
      today == t \div HoursPerDay
      IsTodays(job) == job.scheduled_date = today /\ job.status = "scheduled"
      todaysJob == IF contractor = NoId THEN NoId
                   ELSE FirstJobOfContractor(W, contractor, {j \in 1..Len(W.jobs) : IsTodays(W.jobs[j])},
                          tieAsc)
  IN  IF todaysJob = NoId THEN W
      ELSE sendOnTheWayNotification(
             updateJobStatus(W, todaysJob, "in_progress"),
             W.customers[W.jobs[todaysJob].customer_id].phone_number,
             W.contractors[contractor].business_name, todaysJob)

(***************************************************************************)
(* Contractor commands of the SMS webhook (routes/webhook.js).             *)
(***************************************************************************)
\* findAlternativeContractor(job): job is the row the contractor passed on, read
\* before the pass was stored.
findAlternativeContractor(W, jobId, row) ==
  LET Candidates(eligibleContractors) ==
        [i \in 1..Len(eligibleContractors) |->
           [id |-> eligibleContractors[i]] @@ W.contractors[eligibleContractors[i]]]
      Notify(W2, customer, bestMatch, newQuote) ==
        IF customer # NoId
        THEN sendSMS(
               sendContractorNotification(
                 W2, W2.contractors[bestMatch.contractor].phone_number, jobId,
                 newQuote.minCost, newQuote.maxCost),
               W2.customers[customer].phone_number, "found_another_contractor", jobId,
               W2.contractors[bestMatch.contractor].business_name,
               newQuote.minCost, newQuote.maxCost)
        ELSE W2
      Requote(W1, customer, bestMatch, newQuote) ==
        Notify([W1 EXCEPT !.jobs[jobId].estimated_cost_min = newQuote.minCost,
                          !.jobs[jobId].estimated_cost_max = newQuote.maxCost],
               customer, bestMatch, newQuote)
      Reassign(customer, bestMatch) ==
        Requote(assignJobToContractor(W, jobId, bestMatch.contractor),
                customer, bestMatch, bestMatch.quote)
      GiveUp(customer) ==
        updateJobStatus(
          IF customer # NoId
          THEN sendSMS(W, W.customers[customer].phone_number,
                       "no_contractors_available", jobId, "", NoNum, NoNum)
          ELSE W,
          jobId, "no_contractors_available")
      Decide(eligibleContractors, customer) ==
        IF Len(eligibleContractors) > 0
        THEN Reassign(customer, findBestContractor(row, Candidates(eligibleContractors)))
        ELSE GiveUp(customer)
  IN  Decide(SelectSeq(findAvailableContractors(W, row.customer_zip),
                       LAMBDA c : c # row.contractor_id),
             queryCustomerById(W, row.customer_id))

\* handleContractorJobResponse(phoneNumber, response, contractor)
handleContractorJobResponse(W, phoneNumber, response, contractor, tieAsc) ==
  LET IsQuoted(job) == job.status = "quoted"
      action == response.action
      \* db.updateJobQuote(response.amount, pendingJob.id): the amount is passed
      \* as the job id and the job id as the quote
      Requoted(W1, pendingJob, customer) ==
        sendSMS(IF customer # NoId
                THEN sendCustomQuoteToCustomer(
                       W1, W1.customers[customer].phone_number,
                       W1.contractors[contractor].business_name, response.amount, pendingJob)
                ELSE W1,
                phoneNumber, "custom_quote_ack", pendingJob, "", response.amount,
                response.amount)
      Approved(W1, pendingJob, customer) ==
        sendSMS(IF customer # NoId
                THEN sendJobApprovalNotification(
                       W1, W1.customers[customer].phone_number, contractor, pendingJob)
                ELSE W1,
                phoneNumber, "job_approved_ack", pendingJob, "", NoNum, NoNum)
      Passed(W1, pendingJob, row, customer) ==
        findAlternativeContractor(
          sendSMS(IF customer # NoId
                  THEN sendJobRejectionNotification(
                         W1, W1.customers[customer].phone_number, pendingJob)
                  ELSE W1,
                  phoneNumber, "job_passed_ack", pendingJob, "", NoNum, NoNum),
          pendingJob, row)
      Act(pendingJob, row, customer) ==
        CASE action = "approve" ->
               Approved(updateJobStatus(W, pendingJob, "approved"), pendingJob, customer)
          [] action = "call_customer" ->
               sendSMS(W, phoneNumber, "customer_contact", pendingJob, "", NoNum, NoNum)
          [] action = "custom_quote" ->
               Requoted(updateJobQuote(W, response.amount, pendingJob), pendingJob, customer)
          [] action = "pass" ->
               Passed(updateJobStatus(W, pendingJob, "contractor_passed"),
                      pendingJob, row, customer)
          [] OTHER ->
               sendSMS(W, phoneNumber, "command_help", pendingJob, "", NoNum, NoNum)
      Found(pendingJob, row) == Act(pendingJob, row, queryCustomerById(W, row.customer_id))
      With(pendingJob) ==
        IF pendingJob = NoId
        THEN sendSMS(W, phoneNumber, "no_pending_requests", NoId, "", NoNum, NoNum)
        ELSE Found(pendingJob, W.jobs[pendingJob])
  IN  With(FirstJobOfContractor(W, contractor, {j \in 1..Len(W.jobs) : IsQuoted(W.jobs[j])},
                          tieAsc))

\* handleInvoiceCommand(phoneNumber, response, contractor).  The jobs table has
\* no column invoice_sent: every row reads as not invoiced, and the UPDATE that
\* is to set the flag throws, which the catch block answers.
handleInvoiceCommand(W, phoneNumber, response, contractor, tieAsc) ==
  LET NeedsInvoice(job) == job.status = "completed" /\ ~job.invoice_sent
      Invoiced(completedJob, customer) ==
        IF customer = NoId THEN W
        ELSE sendSMS(sendInvoiceToCustomer(
                       W, W.customers[customer].phone_number,
                       W.contractors[contractor].business_name, response.amount,
                       completedJob),
                     phoneNumber, "invoice_error", completedJob, "", NoNum, NoNum)
      With(completedJob) ==
        IF completedJob = NoId
        THEN sendSMS(W, phoneNumber, "no_completed_jobs", NoId, "", NoNum, NoNum)
        ELSE Invoiced(completedJob,
                      queryCustomerById(W, W.jobs[completedJob].customer_id))
  IN  IF response.action = "invoice" /\ response.amount # NoNum /\ response.description # ""
      THEN With(FirstJobOfContractor(
                  W, contractor, {j \in 1..Len(W.jobs) : NeedsInvoice(W.jobs[j])}, tieAsc))
      ELSE sendSMS(W, phoneNumber, "invoice_format", NoId, "", NoNum, NoNum)

\* handleSpecialCommands(phoneNumber, messageBody)
handleSpecialCommands(W, phoneNumber, messageBody, tieAsc, t) ==
  LET normalizedMessage == trim(toUpperCase(messageBody))
      contractor == getContractorByPhone(W, phoneNumber)
      IsInProgress(job) == job.status = "in_progress"
      activeJob == FirstJobOfContractor(W, contractor, {j \in 1..Len(W.jobs) : IsInProgress(W.jobs[j])},
                          tieAsc)
      contractorResponse == parseContractorResponse(messageBody)
  IN  IF contractor = NoId THEN W
      ELSE IF includes(normalizedMessage, "ON THE WAY") \/ normalizedMessage = Lit("OTW")
      THEN handleOnTheWayNotification(W, phoneNumber, tieAsc, t)
      ELSE IF includes(normalizedMessage, "JOB DONE") \/ includes(normalizedMessage, "COMPLETED")
      THEN IF activeJob # NoId THEN markJobCompleted(W, activeJob, phoneNumber, t).world ELSE W
      ELSE IF contractorResponse.action # "unknown"
      THEN handleContractorJobResponse(W, phoneNumber, contractorResponse, contractor, tieAsc)
      ELSE IF startsWith(normalizedMessage, "INVOICE ")
      THEN handleInvoiceCommand(W, phoneNumber, contractorResponse, contractor, tieAsc)
      ELSE W

(***************************************************************************)
(* Conversation engine (AIConversationEngine).  What the language model    *)
(* answers is an input: a failure, plain conversation, a READY_TO_QUOTE    *)
(* tag whose JSON does not parse, or a tag with one of the payloads.       *)
(***************************************************************************)
Payloads ==
  {[kind |-> "quote", problem |-> "kitchen sink is leaking", category |-> "plumbing",
    urgency |-> "emergency"]}

AiOutcomes ==
  {[kind |-> k, problem |-> "NULL", category |-> "NULL", urgency |-> "NULL"] :
     k \in {"error", "chat", "bad_json"}} \cup Payloads

\* parseServices: the model's JSON array, or the text itself when the call or
\* the parse fails.
ServiceOutcomes ==
  {[kind |-> k, problem |-> "NULL", category |-> "NULL", urgency |-> "NULL"] :
     k \in {"error", "services"}}

parseServices(servicesText, ai) ==
  IF ai.kind = "services" THEN <<"pipe repair", "drain cleaning">> ELSE <<Typed(servicesText)>>

\* createContractor(data); is_active defaults to 1, a markup of 0 to 0.5.
createContractor(W, data) ==
  [W EXCEPT !.contractors =
     Append(@, [phone_number |-> data.phone_number, business_name |-> data.business_name,
                service_area_zip |-> data.service_area_zip,
                services_offered |-> data.services_offered,
                base_service_fee |-> data.base_service_fee,
                hourly_rate |-> data.hourly_rate,
                emergency_markup |-> IF data.emergency_markup = 0 THEN 50
                                     ELSE data.emergency_markup,
                is_active |-> TRUE])]

urgencyMap(urgency) ==
  IF urgency \in {"low", "medium", "high", "emergency"} THEN urgency ELSE "medium"

createCustomer(W, phoneNumber) ==
  [W EXCEPT !.customers = Append(@, [phone_number |-> phoneNumber])]

\* An insertion that stores the new job as already quoted.
createJobQuoted(W, data, sameSecond) ==
  LET last == IF Len(W.jobs) = 0 THEN 0 ELSE W.jobs[Len(W.jobs)].created_at
      row == [customer_id |-> data.customer_id, contractor_id |-> NoId,
              problem_description |-> data.problem_description,
              service_category |-> data.service_category,
              urgency_level |-> data.urgency_level,
              customer_zip |-> data.customer_zip,
              estimated_cost_min |-> data.estimated_cost_min,
              estimated_cost_max |-> data.estimated_cost_max,
              final_quote |-> NoNum, invoice_sent |-> FALSE, completion_date |-> NoNum,
              status |-> "quoted", scheduled_date |-> NoNum, scheduled_time |-> "NULL",
              created_at |-> IF sameSecond /\ last > 0 THEN last ELSE last + 1]
  IN  [W EXCEPT !.jobs = Append(@, row)]

\* createJob(data); created_at is CURRENT_TIMESTAMP, of one second's resolution:
\* the second of the previous insertion (sameSecond) or a later one.
createJob(W, data, sameSecond) ==
  LET last == IF Len(W.jobs) = 0 THEN 0 ELSE W.jobs[Len(W.jobs)].created_at
      row == [customer_id |-> data.customer_id, contractor_id |-> NoId,
              problem_description |-> data.problem_description,
              service_category |-> data.service_category,
              urgency_level |-> data.urgency_level,
              customer_zip |-> data.customer_zip,
              estimated_cost_min |-> data.estimated_cost_min,
              estimated_cost_max |-> data.estimated_cost_max,
              final_quote |-> NoNum, invoice_sent |-> FALSE, completion_date |-> NoNum,
              status |-> "pending", scheduled_date |-> NoNum, scheduled_time |-> "NULL",
              created_at |-> IF sameSecond /\ last > 0 THEN last ELSE last + 1]
  IN  [W EXCEPT !.jobs = Append(@, row)]

\* handleContractorMessage and handleContractorResponse: a reply, no effect.
handleContractorMessage(message) ==
  LET upperMessage == trim(toUpperCase(message))
  IN  IF upperMessage = Lit("A") THEN "job_approved"
      ELSE IF upperMessage = Lit("C") THEN "calling_customer"
      ELSE IF upperMessage = Lit("X") THEN "job_passed"
      ELSE "contractor_commands"

handleContractorResponse(message) ==
  LET response == trim(toUpperCase(message))
  IN  IF response = Lit("A") THEN "job_approved"
      ELSE IF response = Lit("C") THEN "calling_customer"
      ELSE IF response = Lit("X") THEN "job_passed"
      ELSE "command_help"

handleSmartConversation(W, phoneNumber, message, ai, sameSecond) ==
  LET contractor == getContractorByPhone(W, phoneNumber)
      existing == getCustomerByPhone(W, phoneNumber)
      W1 == IF existing = NoId THEN createCustomer(W, phoneNumber) ELSE W
      customer == getCustomerByPhone(W1, phoneNumber)
      allContractors == getAllContractors(W1)
      selectedContractor == allContractors[1]
      intake == [EmptyContext EXCEPT !.customer_id = customer]
      urgency == urgencyMap(ai.urgency)
      quote == simpleQuote(urgency, W1.contractors[selectedContractor])
      W2 == createJob(W1, [customer_id |-> customer,
                           problem_description |-> ai.problem,
                           service_category |-> ai.category,
                           urgency_level |-> urgency,
                           customer_zip |-> W1.contractors[selectedContractor].service_area_zip,
                           estimated_cost_min |-> quote.minCost,
                           estimated_cost_max |-> quote.maxCost], sameSecond)
      newContext == [EmptyContext EXCEPT
                       !.customer_id = customer, !.job_id = Len(W2.jobs),
                       !.contractor_id = selectedContractor,
                       !.problem_description = ai.problem,
                       !.service_category = ai.category, !.urgency_level = urgency]
      normalizedMessage == trim(toUpperCase(message))
  IN  IF normalizedMessage = Lit("SETUP") \/ includes(normalizedMessage, "SETUP")
      THEN IF contractor # NoId
           THEN [world |-> W, reply |-> "already_set_up"]
           ELSE [world |-> updateConversationState(W, phoneNumber, "CONTRACTOR_ONBOARDING",
                                                   [EmptyContext EXCEPT !.step = "business_name"]),
                 reply |-> "welcome_business_name"]
      ELSE IF contractor # NoId
      THEN [world |-> W, reply |-> handleContractorMessage(message)]
      ELSE IF Len(allContractors) = 0
      THEN [world |-> W1, reply |-> "service_not_set_up"]
      ELSE IF ai.kind = "error"
      THEN [world |-> W1, reply |-> "ai_trouble"]
      ELSE IF ai.kind = "bad_json"
      THEN [world |-> updateConversationState(W1, phoneNumber, "CUSTOMER_INTAKE", intake),
            reply |-> "conversation"]
      ELSE IF ai.kind = "chat"
      THEN [world |-> updateConversationState(W1, phoneNumber, "CUSTOMER_INTAKE", intake),
            reply |-> "conversation"]
      ELSE [world |-> updateConversationState(W2, phoneNumber, "AWAITING_QUOTE_APPROVAL",
                                              newContext),
            reply |-> "quote"]

\* handleContractorOnboarding(phoneNumber, message, context)
handleContractorOnboarding(W, phoneNumber, message, context, ai) ==
  LET step == context.step
      Next1(ctx, nextStep) ==
        updateConversationState(W, phoneNumber, "CONTRACTOR_ONBOARDING",
                                [ctx EXCEPT !.step = nextStep])
      number == parseFloat(message)
      final == [context EXCEPT !.available_hours = Typed(message)]
  IN  CASE step = "business_name" ->
             [world |-> Next1([context EXCEPT !.business_name = Typed(trim(message))],
                              "trade_type"),
              reply |-> "ask_trade_type"]
        [] step = "trade_type" ->
             [world |-> Next1([context EXCEPT !.trade_type = Typed(toLowerCase(trim(message)))],
                              "service_area"),
              reply |-> "ask_zip"]
        [] step = "service_area" ->
             IF zipMatch(message) = "NULL"
             THEN [world |-> W, reply |-> "invalid_zip"]
             ELSE [world |-> Next1([context EXCEPT !.service_area_zip = zipMatch(message)],
                                   "services"),
                   reply |-> "ask_services"]
        [] step = "services" ->
             [world |-> Next1([context EXCEPT !.services_offered = parseServices(message, ai)],
                              "service_fee"),
              reply |-> "ask_service_fee"]
        [] step = "service_fee" ->
             IF number < 0
             THEN [world |-> W, reply |-> "invalid_service_fee"]
             ELSE [world |-> Next1([context EXCEPT !.base_service_fee = number], "hourly_rate"),
                   reply |-> "ask_hourly_rate"]
        [] step = "hourly_rate" ->
             IF number < 0
             THEN [world |-> W, reply |-> "invalid_hourly_rate"]
             ELSE [world |-> Next1([context EXCEPT !.hourly_rate = number], "emergency_markup"),
                   reply |-> "ask_markup"]
        [] step = "emergency_markup" ->
             IF number < 0
             THEN [world |-> W, reply |-> "invalid_markup"]
             ELSE [world |-> Next1([context EXCEPT !.emergency_markup = number], "hours"),
                   reply |-> "ask_hours"]
        [] step = "hours" ->
             IF getContractorByPhone(W, phoneNumber) # NoId
             THEN [world |-> W, reply |-> "setup_error"]
             ELSE [world |-> updateConversationState(
                               createContractor(W, final @@ [phone_number |-> phoneNumber]),
                               phoneNumber, "IDLE", EmptyContext),
                   reply |-> "welcome_contractor"]
        [] OTHER ->
             [world |-> updateConversationState(W, phoneNumber, "IDLE", EmptyContext),
              reply |-> "start_over"]

\* A quote approval that gives up on any reply.
handleQuoteApprovalReset(W, phoneNumber, message, context) ==
  [world |-> updateConversationState(W, phoneNumber, "IDLE", EmptyContext),
   reply |-> "reply_yes_or_no"]

handleQuoteApproval(W, phoneNumber, message, context) ==
  LET response == trim(toUpperCase(message))
      job == getJobById(W, context.job_id)
      contractor == getContractorById(W, context.contractor_id)
  IN  IF response \in {Lit("YES"), Lit("Y")}
      THEN IF job # NoId /\ contractor # NoId
           THEN [world |-> updateConversationState(
                             updateJobStatus(
                               assignJobToContractor(W, context.job_id, context.contractor_id),
                               context.job_id, "quoted"),
                             phoneNumber, "AWAITING_CONTRACTOR_RESPONSE", context),
                 reply |-> "request_sent"]
           ELSE [world |-> updateConversationState(W, phoneNumber, "IDLE", EmptyContext),
                 reply |-> "approval_error"]
      ELSE IF response \in {Lit("NO"), Lit("N")}
      THEN [world |-> updateConversationState(
                        IF context.job_id # NoId
                        THEN updateJobStatus(W, context.job_id, "cancelled")
                        ELSE W,
                        phoneNumber, "IDLE", EmptyContext),
            reply |-> "no_problem"]
      ELSE [world |-> W, reply |-> "reply_yes_or_no"]

\* processMessage(phoneNumber, incomingMessage)
processMessage(W, phoneNumber, incomingMessage, ai, sameSecond) ==
  LET state == W.conv[phoneNumber].state
      context == W.conv[phoneNumber].context
  IN  IF toUpperCase(trim(incomingMessage)) = Lit("CANCEL")
      THEN [world |-> updateConversationState(W, phoneNumber, "IDLE", EmptyContext),
            reply |-> "conversation_reset"]
      ELSE CASE state = "CONTRACTOR_ONBOARDING" ->
                  handleContractorOnboarding(W, phoneNumber, incomingMessage, context, ai)
             [] state = "AWAITING_QUOTE_APPROVAL" ->
                  handleQuoteApproval(W, phoneNumber, incomingMessage, context)
             [] state = "AWAITING_CONTRACTOR_RESPONSE" ->
                  [world |-> W, reply |-> handleContractorResponse(incomingMessage)]
             [] state = "JOB_SCHEDULED" ->
                  [world |-> W, reply |-> "job_is_scheduled"]
             [] OTHER ->
                  handleSmartConversation(W, phoneNumber, incomingMessage, ai, sameSecond)

(***************************************************************************)
(* Initial state: the database after scripts/seed.js has stored the demo   *)
(* contractors; no customer, no job, no conversation, no timer.            *)
(***************************************************************************)
SeedContractors ==
  << [phone_number |-> PlumberPhone, business_name |-> "ABC Plumbing Services",
      service_area_zip |-> "90210",
      services_offered |-> <<"pipe repair", "drain cleaning", "water heater installation",
                             "emergency plumbing">>,
      base_service_fee |-> 75, hourly_rate |-> 125, emergency_markup |-> 50,
      is_active |-> TRUE],
     [phone_number |-> ElectricianPhone, business_name |-> "ElectriCorp",
      service_area_zip |-> "90210",
      services_offered |-> <<"outlet installation", "ceiling fan installation",
                             "electrical panel upgrade", "circuit repair">>,
      base_service_fee |-> 85, hourly_rate |-> 150, emergency_markup |-> 75,
      is_active |-> TRUE],
     [phone_number |-> HandymanPhone, business_name |-> "Handy Dave",
      service_area_zip |-> "90210",
      services_offered |-> <<"furniture assembly", "picture hanging", "minor repairs",
                             "door installation", "drywall patching">>,
      base_service_fee |-> 60, hourly_rate |-> 85, emergency_markup |-> 25,
      is_active |-> TRUE] >>

\* lastOp: the entry point that ran last, the job it was given, what it answered,
\* and (for a message) the sender's conversation as processMessage read it.
\* No call of a quoting function: no arguments, no return value.
NoQuote ==
  [job |-> [problem_description |-> "", service_category |-> "", urgency_level |-> ""],
   candidates |-> <<>>, contractor |-> NoId, minCost |-> NoNum, maxCost |-> NoNum]

NoOp ==
  [name |-> "none", job |-> NoId, result |-> "", quote |-> NoQuote,
   conversation |-> [state |-> "IDLE", context |-> EmptyContext]]

Init ==
  /\ contractors = SeedContractors
  /\ customers = <<>>
  /\ jobs = <<>>
  /\ conv = [p \in Phones |-> [state |-> "IDLE", context |-> EmptyContext]]
  /\ registry = EmptyRegistry
  /\ tasks = <<>>
  /\ now = 0
  /\ sent = <<>>
  /\ gateway = TRUE
  /\ awaiting = <<>>
  /\ lastOp = NoOp

\* The handler's writes become the state; the clock does not move meanwhile.
\* No more than MaxJobs rows are inserted, no more than MaxTasks tasks created.
Commit(W, op) ==
  /\ lastOp' = op
  /\ Len(W.jobs) > Len(jobs) => Len(W.jobs) <= MaxJobs
  /\ Len(W.tasks) > Len(tasks) => Len(W.tasks) <= MaxTasks
  /\ contractors' = W.contractors
  /\ customers' = W.customers
  /\ jobs' = W.jobs
  /\ conv' = W.conv
  /\ registry' = W.registry
  /\ tasks' = W.tasks
  /\ sent' = W.sent
  /\ UNCHANGED <<now, gateway, awaiting>>

(***************************************************************************)
(* POST /webhook/sms                                                       *)
(***************************************************************************)
SmsWebhook(fromNumber, messageBody, ai, sameSecond, tieAsc) ==
  LET Reply(W1, r) ==
        Commit(r.world, [NoOp EXCEPT !.name = "sms", !.result = r.reply,
                                     !.conversation = W1.conv[fromNumber]])
      Process(W1) == Reply(W1, processMessage(W1, fromNumber, messageBody, ai, sameSecond))
  IN  Process(handleSpecialCommands(World, fromNumber, messageBody, tieAsc, now))

(***************************************************************************)
(* Contractor dashboard (src/src/routes/dashboard.js).  verifySession puts *)
(* the contractor of a verified, unexpired session into req.contractorId.  *)
(***************************************************************************)
\* The contractors that hold a verified session.  db.js exports no
\* getDashboardSession, the lookup verifySession calls; the set stands for the
\* sessions that lookup is to return.  SchedSpec does without these routes.
SessionContractors == 1..Len(contractors)

\* A lookup of the job by its id alone.
jobOfAnyContractor(W, jobId, contractorId) ==
  IF jobId \in 1..Len(W.jobs) THEN jobId ELSE NoId

\* SELECT * FROM jobs WHERE id = ? AND contractor_id = ?
jobOfContractor(W, jobId, contractorId) ==
  IF jobId \in 1..Len(W.jobs) /\ W.jobs[jobId].contractor_id = contractorId
  THEN jobId ELSE NoId

validStatuses == {"quoted", "approved", "scheduled", "in_progress", "completed", "cancelled"}

handleJobStatusChange(W, jobId, status, contractorId, t) ==
  LET job == getJobById(W, jobId)
      contractor == getContractorById(W, contractorId)
      customer == queryCustomerById(W, W.jobs[job].customer_id)
      customerPhone == W.customers[customer].phone_number
  IN  IF job = NoId \/ contractor = NoId \/ customer = NoId THEN W
      ELSE CASE status = "approved" ->
                  sendJobApprovalNotification(W, customerPhone, contractor, jobId)
             [] status = "in_progress" ->
                  sendOnTheWayNotification(W, customerPhone,
                                           W.contractors[contractor].business_name, jobId)
             [] status = "completed" ->
                  markJobCompleted(W, jobId, W.contractors[contractor].phone_number, t).world
             [] status = "cancelled" ->
                  sendSMS(W, customerPhone, "job_cancelled", jobId,
                          W.contractors[contractor].business_name, NoNum, NoNum)
             [] OTHER -> W

\* POST /dashboard/jobs/:jobId/status
DashboardStatus(contractorId, jobId, status) ==
  LET W == World
      job == jobOfContractor(W, jobId, contractorId)
      op == [NoOp EXCEPT !.name = "dashboard_status", !.job = jobId]
  IN  IF job = NoId THEN Commit(W, [op EXCEPT !.result = "404"])
      ELSE IF status \notin validStatuses THEN Commit(W, [op EXCEPT !.result = "400"])
      ELSE Commit(handleJobStatusChange(updateJobStatus(W, jobId, status),
                                        jobId, status, contractorId, now),
                  [op EXCEPT !.result = "200"])

\* POST /dashboard/jobs/:jobId/schedule
DashboardSchedule(contractorId, jobId, date, time) ==
  LET W == World
      job == jobOfContractor(W, jobId, contractorId)
      r == scheduleJob(W, jobId, date, time, now)
      op == [NoOp EXCEPT !.name = "dashboard_schedule", !.job = jobId]
  IN  IF job = NoId THEN Commit(W, [op EXCEPT !.result = "404"])
      ELSE Commit(r.world, [op EXCEPT !.result = IF r.success THEN "200" ELSE "400"])

(***************************************************************************)
(* Administrative API (src/src/routes/api.js).                             *)
(***************************************************************************)
\* POST /api/jobs/:jobId/respond, action approve or pass; date is NoNum when the
\* body carries no scheduled_date, and the body carries no scheduled_time.
ApiRespond(jobId, action, date) ==
  LET W == World
      job == getJobById(W, jobId)
      customer == queryCustomerById(W, W.jobs[job].customer_id)
      contractor == getContractorById(W, W.jobs[job].contractor_id)
      W1 == updateJobStatus(W, jobId, "approved")
      W2 == IF date # NoNum THEN scheduleJobRow(W1, jobId, date, "TBD", "scheduled") ELSE W1
      op == [NoOp EXCEPT !.name = "api_respond", !.job = jobId]
  IN  IF job = NoId THEN Commit(W, [op EXCEPT !.result = "404"])
      ELSE IF action = "approve"
      THEN IF contractor = NoId
           THEN Commit(W2, [op EXCEPT !.result = "500"])
           ELSE Commit(sendSMS(W2, W2.customers[customer].phone_number, "job_accepted",
                               jobId, W2.contractors[contractor].business_name,
                               W.jobs[job].estimated_cost_min, W.jobs[job].estimated_cost_max),
                       [op EXCEPT !.result = "200"])
      ELSE IF action = "pass"
      THEN Commit(updateJobStatus(W, jobId, "cancelled"), [op EXCEPT !.result = "200"])
      ELSE Commit(W, [op EXCEPT !.result = "400"])

\* POST /api/contractors/:contractorId/availability with isActive in the body
SetAvailability(contractorId, isActive) ==
  LET W == World
      op == [NoOp EXCEPT !.name = "availability"]
  IN  IF getContractorById(W, contractorId) = NoId
      THEN Commit(W, [op EXCEPT !.result = "404"])
      ELSE Commit([W EXCEPT !.contractors[contractorId].is_active = isActive],
                  [op EXCEPT !.result = "200"])

(***************************************************************************)
(* The clock and the cron callbacks.                                       *)
(***************************************************************************)
\* The next instant at which the program observes the clock: the next hour
\* that an armed task's expression matches, or the next midnight.
NextInstant(t) ==
  LET midnight == (t \div HoursPerDay + 1) * HoursPerDay
  IN  CHOOSE u \in (t + 1)..midnight :
        /\ u = midnight \/ \E i \in 1..Len(tasks) : tasks[i].armed /\ CronMatches(tasks[i].expr, u)
        /\ \A v \in (t + 1)..(u - 1) :
             ~\E i \in 1..Len(tasks) : tasks[i].armed /\ CronMatches(tasks[i].expr, v)

\* Time passes to the next observed instant; the armed tasks whose expression
\* matches it become due.  Callbacks run before time passes on.
Tick ==
  /\ \A i \in 1..Len(tasks) : ~tasks[i].due
  /\ NextInstant(now) \div HoursPerDay <= MaxDay
  /\ now' = NextInstant(now)
  /\ tasks' = [i \in 1..Len(tasks) |->
                 IF tasks[i].armed /\ CronMatches(tasks[i].expr, NextInstant(now))
                 THEN [tasks[i] EXCEPT !.due = TRUE] ELSE tasks[i]]
  /\ sent' = <<>>
  /\ lastOp' = [NoOp EXCEPT !.name = "tick"]
  /\ UNCHANGED <<contractors, customers, jobs, conv, registry, gateway, awaiting>>

\* A day-of reminder that does not look at the job's status.
sendDayOfReminderAnyStatus(W, jobId) ==
  IF getJobById(W, jobId) # NoId /\ getContractorByPhone(W, PlaceholderPhone) # NoId
  THEN sendSMS(W, PlaceholderPhone, "day_of_reminder", jobId, "", NoNum, NoNum)
  ELSE W

\* sendDayBeforeReminder(jobId) and sendDayOfReminder(jobId): nothing is sent
\* unless the job is scheduled and the placeholder contractor exists.
sendDayBeforeReminder(W, jobId) ==
  LET job == getJobById(W, jobId)
      contractor == getContractorByPhone(W, PlaceholderPhone)
      customer == getCustomerById(W, W.jobs[job].customer_id)
  IN  IF job = NoId THEN W
      ELSE IF W.jobs[job].status # "scheduled" THEN W
      ELSE IF contractor # NoId /\ customer # NoId
      THEN sendSMS(sendSMS(W, W.contractors[contractor].phone_number, "day_before_reminder",
                           jobId, "", NoNum, NoNum),
                   W.customers[customer].phone_number, "day_before_reminder", jobId,
                   W.contractors[contractor].business_name, NoNum, NoNum)
      ELSE W

sendDayOfReminder(W, jobId) ==
  LET job == getJobById(W, jobId)
      contractor == getContractorByPhone(W, PlaceholderPhone)
  IN  IF job = NoId THEN W
      ELSE IF W.jobs[job].status # "scheduled" THEN W
      ELSE IF contractor # NoId
      THEN sendSMS(W, W.contractors[contractor].phone_number, "day_of_reminder", jobId, "",
                   NoNum, NoNum)
      ELSE W

\* The follow-up callback: the customer lookup is undefined, nothing is sent.
sendFollowup(W, jobId) ==
  LET job == getJobById(W, jobId)
      customer == getCustomerById(W, W.jobs[job].customer_id)
  IN  IF job # NoId /\ customer # NoId
      THEN sendSMS(W, W.customers[customer].phone_number, "completion_followup", jobId, "",
                   NoNum, NoNum)
      ELSE W

\* The callback of a due cron task: the reminder or follow-up, then
\* this.jobs.delete(key).  The task itself stays armed.
FireTimer(i) ==
  /\ i \in 1..Len(tasks)
  /\ tasks[i].armed /\ tasks[i].due
  /\ tasks[i].runs < MaxRuns
  /\ LET W == [World EXCEPT !.tasks[i].due = FALSE, !.tasks[i].runs = @ + 1]
         W1 == CASE tasks[i].kind = "day_before" -> sendDayBeforeReminder(W, tasks[i].job)
                 [] tasks[i].kind = "day_of" -> sendDayOfReminder(W, tasks[i].job)
                 [] OTHER -> sendFollowup(W, tasks[i].job)
         W2 == [W1 EXCEPT !.registry = MapDelete(@, Key(tasks[i].kind, tasks[i].job))]
     IN  Commit(W2, [NoOp EXCEPT !.name = "timer", !.job = tasks[i].job])

(***************************************************************************)
(* The program.  Only a number that is no contractor's reaches the language *)
(* model and may create a job; only a contractor's number reads job lists. *)
(***************************************************************************)
NoAi == [kind |-> "error", problem |-> "NULL", category |-> "NULL", urgency |-> "NULL"]

ScheduleDates == {Today + 1}

\* The answers drawn when the engine consults the language model, the seconds
\* drawn when a job row is inserted, the orders drawn when rows tie.
AiChoices(fromNumber, messageBody) ==
  IF \/ toUpperCase(trim(messageBody)) = Lit("CANCEL")
     \/ getContractorByPhone(World, fromNumber) # NoId
  THEN {NoAi}
  ELSE IF conv[fromNumber].state = "CONTRACTOR_ONBOARDING"
  THEN IF conv[fromNumber].context.step = "services" THEN ServiceOutcomes ELSE {NoAi}
  ELSE IF /\ conv[fromNumber].state \notin {"AWAITING_QUOTE_APPROVAL",
                                             "AWAITING_CONTRACTOR_RESPONSE", "JOB_SCHEDULED"}
          /\ ~includes(trim(toUpperCase(messageBody)), "SETUP")
          /\ getAllContractors(World) # <<>>
  THEN AiOutcomes ELSE {NoAi}

\* What a sender may type: anything, or during onboarding an answer to the step.
BodyChoices(fromNumber, bodies) ==
  IF conv[fromNumber].state = "CONTRACTOR_ONBOARDING"
  THEN OnboardingBodies(conv[fromNumber].context.step)
  ELSE bodies

SecondChoices(ai) == IF ai.kind = "quote" /\ Len(jobs) > 0 THEN BOOLEAN ELSE {FALSE}

TieChoices(fromNumber) ==
  IF /\ getContractorByPhone(World, fromNumber) # NoId
     /\ \E i, j \in 1..Len(jobs) : i # j /\ jobs[i].created_at = jobs[j].created_at
  THEN BOOLEAN ELSE {TRUE}

ReceiveOf(phones, bodies) ==
  \E fromNumber \in phones : \E messageBody \in BodyChoices(fromNumber, bodies) :
    \E ai \in AiChoices(fromNumber, messageBody) : \E sameSecond \in SecondChoices(ai) :
      \E tieAsc \in TieChoices(fromNumber) :
        SmsWebhook(fromNumber, messageBody, ai, sameSecond, tieAsc)

Receive == ReceiveOf(Phones, Bodies \cup SetupBodies \cup ReplyBodies)

UpdateStatus ==
  \E contractorId \in SessionContractors, jobId \in 1..MaxJobs,
     status \in validStatuses \cup {"contractor_passed"} :
    DashboardStatus(contractorId, jobId, status)

Schedule ==
  \E contractorId \in SessionContractors, jobId \in 1..MaxJobs,
     date \in ScheduleDates, time \in {"09:00", "undefined"} :
    DashboardSchedule(contractorId, jobId, date, time)

Respond ==
  \E jobId \in 1..MaxJobs, action \in {"approve", "pass"}, date \in {NoNum} \cup ScheduleDates :
    ApiRespond(jobId, action, date)

Availability ==
  \E contractorId \in 1..Len(contractors), isActive \in BOOLEAN :
    SetAvailability(contractorId, isActive)

Fire == \E i \in 1..MaxTasks : FireTimer(i)

Next ==
  \/ Receive
  \/ UpdateStatus
  \/ Schedule
  \/ Respond
  \/ Availability
  \/ Tick
  \/ Fire

Spec == Init /\ [][Next]_vars

(***************************************************************************)
(* The message channel alone, from a database in which any of the seeded   *)
(* contractors may have been set inactive.                                 *)
(***************************************************************************)
InitAvailability ==
  /\ \E flags \in [1..Len(SeedContractors) -> BOOLEAN] :
       contractors = [i \in 1..Len(SeedContractors) |->
                        [SeedContractors[i] EXCEPT !.is_active = flags[i]]]
  /\ customers = <<>>
  /\ jobs = <<>>
  /\ conv = [p \in Phones |-> [state |-> "IDLE", context |-> EmptyContext]]
  /\ registry = EmptyRegistry
  /\ tasks = <<>>
  /\ now = 0
  /\ sent = <<>>
  /\ gateway = TRUE
  /\ awaiting = <<>>
  /\ lastOp = NoOp

\* Messages from every phone, the onboarding word excepted.
SmsSpec == InitAvailability /\ [][ReceiveOf(Phones, Bodies)]_vars

(***************************************************************************)
(* The conversation of one phone that starts as nobody's: it may become a  *)
(* customer's, and through onboarding a contractor's.                      *)
(***************************************************************************)
ReceiveCustomer == ReceiveOf(CustomerPhones, Bodies \cup SetupBodies \cup ReplyBodies)

\* cleanupExpiredSessions(): the conversations in old are those last updated
\* more than a week ago; the IDLE ones among them get the context '{}'.
cleanupExpiredSessions(W, old) ==
  [W EXCEPT !.conv = [p \in DOMAIN W.conv |->
                        IF p \in old /\ W.conv[p].state = "IDLE"
                        THEN [W.conv[p] EXCEPT !.context = EmptyContext]
                        ELSE W.conv[p]]]

Cleanup ==
  \E old \in SUBSET CustomerPhones :
    Commit(cleanupExpiredSessions(World, old), [NoOp EXCEPT !.name = "cleanup"])

ConvSpec == Init /\ [][ReceiveCustomer \/ Cleanup]_vars

(***************************************************************************)
(* The scheduler as a module: its exported methods called directly, next   *)
(* to the dashboard and API routes, the clock and the cron callbacks, on a *)
(* database that holds one job, approved by its contractor.                *)
(***************************************************************************)
ConstructionWorld ==
  [contractors |-> SeedContractors, customers |-> <<>>, jobs |-> <<>>,
   conv |-> [p \in Phones |-> [state |-> "IDLE", context |-> EmptyContext]],
   registry |-> EmptyRegistry, tasks |-> <<>>, sent |-> <<>>, up |-> TRUE]

\* The world after a customer described a problem, accepted the quote, and the
\* contractor approved the job.
ApprovedWorld ==
  LET TheCustomer == CHOOSE p \in CustomerPhones : TRUE
      ThePayload == CHOOSE a \in Payloads : TRUE
      Message(W, fromNumber, messageBody, ai) ==
        processMessage(handleSpecialCommands([W EXCEPT !.sent = <<>>], fromNumber,
                                             messageBody, TRUE, 0),
                       fromNumber, messageBody, ai, FALSE).world
  IN  Message(Message(Message(ConstructionWorld, TheCustomer, Lit("MY SINK LEAKS"),
                              ThePayload),
                      TheCustomer, Lit("YES"), NoAi),
              PlumberPhone, Lit("A"), NoAi)

StartIn(W) ==
  /\ contractors = W.contractors
  /\ customers = W.customers
  /\ jobs = W.jobs
  /\ conv = W.conv
  /\ registry = W.registry
  /\ tasks = W.tasks
  /\ now = 0
  /\ sent = W.sent
  /\ gateway = TRUE
  /\ awaiting = <<>>
  /\ lastOp = [NoOp EXCEPT !.name = "sms", !.result = "job_approved"]

InitApproved == StartIn(ApprovedWorld)

\* scheduler.scheduleReminders(db.getJobById(jobId), contractor, customer)
CallScheduleReminders(jobId) ==
  /\ getJobById(World, jobId) # NoId
  /\ Commit(scheduleReminders(World, jobId, jobs[jobId], now),
            [NoOp EXCEPT !.name = "scheduleReminders", !.job = jobId])

\* scheduler.scheduleJob(jobId, contractorId, scheduledDate, scheduledTime); the
\* method does not read contractorId.
CallScheduleJob(jobId, date, time) ==
  LET Done(r) ==
        Commit(r.world, [NoOp EXCEPT !.name = "scheduleJob", !.job = jobId,
                                     !.result = IF r.success THEN "success" ELSE r.error])
  IN  Done(scheduleJob(World, jobId, date, time, now))

\* scheduler.rescheduleJob(jobId, newDate, newTime)
CallRescheduleJob(jobId, newDate, newTime) ==
  LET r == rescheduleJob(World, jobId, newDate, newTime, now)
  IN  Commit(r.world, [NoOp EXCEPT !.name = "rescheduleJob", !.job = jobId,
                                   !.result = IF r.success THEN "success" ELSE r.error])

\* scheduler.markJobCompleted(jobId, contractorPhone)
CallMarkJobCompleted(jobId, contractorPhone) ==
  LET Done(r) ==
        Commit(r.world, [NoOp EXCEPT !.name = "markJobCompleted", !.job = jobId,
                                     !.result = IF r.success THEN "success" ELSE r.error])
  IN  Done(markJobCompleted(World, jobId, contractorPhone, now))

\* scheduler.cancelJobReminders(jobId)
CallCancelJobReminders(jobId) ==
  Commit(cancelJobReminders(World, jobId),
         [NoOp EXCEPT !.name = "cancelJobReminders", !.job = jobId])

\* scheduler.stop()
CallStop == Commit(stop(World), [NoOp EXCEPT !.name = "stop"])

Remind == \E jobId \in 1..MaxJobs : CallScheduleReminders(jobId)

Complete ==
  \E jobId \in 1..MaxJobs, contractorPhone \in {PlumberPhone, ElectricianPhone} :
    CallMarkJobCompleted(jobId, contractorPhone)

ScheduleJob ==
  \E jobId \in 1..MaxJobs, date \in ScheduleDates, time \in {"09:00", "undefined"} :
    CallScheduleJob(jobId, date, time)

Reschedule ==
  \E jobId \in 1..MaxJobs, newDate \in ScheduleDates, newTime \in {"09:00"} :
    CallRescheduleJob(jobId, newDate, newTime)

CancelReminders == \E jobId \in 1..MaxJobs : CallCancelJobReminders(jobId)

NextSched ==
  \/ Respond
  \/ ScheduleJob
  \/ Remind
  \/ Complete
  \/ Reschedule
  \/ CancelReminders
  \/ CallStop
  \/ Tick
  \/ Fire

SchedSpec == InitApproved /\ [][NextSched]_vars

(***************************************************************************)
(* Properties of the job life cycle.                                       *)
(***************************************************************************)
TerminalStatuses == {"completed", "cancelled", "no_contractors_available"}

\* The edges of the life cycle: the main line, and from every status that is
\* not terminal the side branches.
GraphEdges ==
  {<<"pending", "quoted">>, <<"quoted", "approved">>, <<"approved", "scheduled">>,
   <<"scheduled", "in_progress">>, <<"in_progress", "completed">>}
    \cup ((Statuses \ TerminalStatuses)
            \X {"cancelled", "contractor_passed", "no_contractors_available"})

\* C1: every job's status is one of the enumerated statuses and changes only
\* along an edge of the life cycle; a request for any other edge leaves it as
\* it was.
C1_OnlyGraphEdges ==
  [][\A j \in 1..Len(jobs) :
       /\ jobs'[j].status \in Statuses
       /\ jobs'[j].status # jobs[j].status
            => <<jobs[j].status, jobs'[j].status>> \in GraphEdges]_vars

\* C2: a job that is completed, cancelled or without available contractors
\* keeps that status whatever operation follows.
C2_TerminalStays ==
  [][\A j \in 1..Len(jobs) :
       jobs[j].status \in TerminalStatuses => jobs'[j].status = jobs[j].status]_vars

(***************************************************************************)
(* Properties of the reminder timers.                                      *)
(***************************************************************************)
ReminderKinds == {"day_before", "day_of"}

\* After the step, job jobId has exactly the two reminder timers of a visit on
\* day date at hour o'clock: in the registry, and among the cron tasks.
RemindersAre(jobId, date, hour) ==
  LET Expected(kind) ==
        IF kind = "day_before"
        THEN dateToCronExpression((date - 1) * HoursPerDay + 18)
        ELSE dateToCronExpression(date * HoursPerDay + hour - 2)
  IN  \A kind \in ReminderKinds :
        /\ Key(kind, jobId) \in DOMAIN registry'
        /\ tasks'[registry'[Key(kind, jobId)]].expr = Expected(kind)
        /\ \A i \in 1..Len(tasks') :
             (tasks'[i].job = jobId /\ tasks'[i].kind = kind) => i = registry'[Key(kind, jobId)]

\* C4: after scheduleJob for a future date D with time 09:00 the scheduler holds
\* exactly one day-before timer of the job, for 18:00 on D-1, and exactly one
\* day-of timer, for 07:00 on D.
C4_TimersRegistered ==
  [][\A jobId \in 1..Len(jobs), date \in ScheduleDates :
       (date > Today /\ CallScheduleJob(jobId, date, "09:00"))
         => RemindersAre(jobId, date, 9)]_vars

\* C5: when a scheduled job becomes cancelled, none of its reminder timers is
\* left: not in the registry, and not among the cron tasks.
C5_CancelRemovesTimers ==
  [][\A j \in 1..Len(jobs) :
       (jobs[j].status = "scheduled" /\ jobs'[j].status = "cancelled")
         => /\ \A kind \in ReminderKinds : Key(kind, j) \notin DOMAIN registry'
            /\ \A i \in 1..Len(tasks') :
                 tasks'[i].job = j => tasks'[i].kind \notin ReminderKinds]_vars

\* C6: rescheduleJob on a scheduled job leaves exactly the two reminder timers
\* computed from the new date and time, and none from the previous schedule.
C6_RescheduleReregisters ==
  [][\A jobId \in 1..Len(jobs), newDate \in ScheduleDates :
       (/\ jobs[jobId].status = "scheduled"
        /\ newDate > Today
        /\ CallRescheduleJob(jobId, newDate, "09:00"))
         => RemindersAre(jobId, newDate, 9)]_vars

\* C7: the callback of a one-shot timer runs at most once.
C7_AtMostOnce == \A i \in 1..Len(tasks) : tasks[i].runs <= 1

(***************************************************************************)
(* Properties of the conversation engine.                                  *)
(***************************************************************************)
Idle == [state |-> "IDLE", context |-> EmptyContext]

\* C3: a message that is CANCEL once trimmed and put in upper case, whatever the
\* sender's conversation state and context, leaves the sender's conversation
\* in IDLE with an empty context.
C3_CancelResets ==
  [][\A p \in Phones, m \in Bodies, tieAsc \in BOOLEAN :
       (m.text = "CANCEL" /\ SmsWebhook(p, m, NoAi, FALSE, tieAsc)) => conv'[p] = Idle]_vars

\* A CANCEL was processed for a sender who was waiting for a contractor's
\* answer, with a job in the context.
C3_Witness ==
  /\ lastOp.name = "sms"
  /\ lastOp.result = "conversation_reset"
  /\ lastOp.conversation.state = "CONTRACTOR_ONBOARDING"
  /\ lastOp.conversation.context.business_name # "NULL"
  /\ \A p \in CustomerPhones : conv[p] = Idle

(***************************************************************************)
(* Properties of the contractor commands.                                  *)
(***************************************************************************)
QuotedJobsOf(c) ==
  {j \in 1..Len(jobs) : jobs[j].contractor_id = c /\ jobs[j].status = "quoted"}

MostRecent(S) == {j \in S : \A k \in S : jobs[k].created_at <= jobs[j].created_at}

CustomerPhoneOf(j) == customers[jobs[j].customer_id].phone_number

\* The messages of the last operation that went to a phone.
SentTo(phone) == {i \in 1..Len(sent') : sent'[i].to = phone}

\* C8: when a contractor with at least one assigned quoted job sends A, exactly
\* one job, a most recently created quoted job of that contractor, becomes
\* approved, every other job keeps its status, and exactly one message with the
\* contractor's business name goes to that job's customer.
C8_ApproveMostRecent ==
  [][\A c \in 1..Len(contractors), m \in Bodies, tieAsc \in BOOLEAN :
       (/\ m.text = "A"
        /\ QuotedJobsOf(c) # {}
        /\ SmsWebhook(contractors[c].phone_number, m, NoAi, FALSE, tieAsc))
       => \E j \in MostRecent(QuotedJobsOf(c)) :
            /\ jobs'[j].status = "approved"
            /\ Len(jobs') = Len(jobs)
            /\ \A k \in 1..Len(jobs) : k # j => jobs'[k].status = jobs[k].status
            /\ Cardinality({i \in SentTo(CustomerPhoneOf(j)) :
                              sent'[i].name = contractors[c].business_name}) = 1]_vars

\* The newer of two quoted jobs of one contractor has been approved and its
\* customer told so; the older one is still quoted.
C8_Witness ==
  /\ Len(jobs) = 2
  /\ jobs[1].contractor_id = jobs[2].contractor_id
  /\ jobs[1].created_at < jobs[2].created_at
  /\ jobs[1].status = "quoted"
  /\ jobs[2].status = "approved"
  /\ lastOp.result = "job_approved"
  /\ \E i \in 1..Len(sent) : sent[i].kind = "job_approval" /\ sent[i].job = 2

\* The active contractors of job j's postal code other than contractor c.
OthersServing(j, c) ==
  {o \in 1..Len(contractors) :
     /\ o # c
     /\ contractors[o].is_active
     /\ contractors[o].service_area_zip = jobs[j].customer_zip}

\* Contractor c, who has a quoted job, sends X.
Passes(c) ==
  /\ QuotedJobsOf(c) # {}
  /\ \E m \in Bodies, tieAsc \in BOOLEAN :
       m.text = "X" /\ SmsWebhook(contractors[c].phone_number, m, NoAi, FALSE, tieAsc)

\* The kinds of the messages of the last operation that went to a phone, in order.
RECURSIVE KindsTo(_, _)
KindsTo(phone, n) ==
  IF n = 0 THEN <<>>
  ELSE IF sent'[n].to = phone THEN Append(KindsTo(phone, n - 1), sent'[n].kind)
  ELSE KindsTo(phone, n - 1)

\* C9 as stated: when a contractor passes on their quoted job and no other active
\* contractor serves its postal code, the job ends in no_contractors_available
\* and exactly one notification goes to its customer.
C9_OneNotification ==
  [][\A c \in 1..Len(contractors) :
       (/\ Passes(c)
        /\ \A j \in MostRecent(QuotedJobsOf(c)) : OthersServing(j, c) = {})
       => \E j \in MostRecent(QuotedJobsOf(c)) :
            /\ jobs'[j].status = "no_contractors_available"
            /\ Len(KindsTo(CustomerPhoneOf(j), Len(sent'))) = 1]_vars

\* C9, amended: in that case the job ends in no_contractors_available and
\* exactly two notifications go to its customer, the rejection and then the
\* news that no contractor is available.
C9_TwoNotifications ==
  [][\A c \in 1..Len(contractors) :
       (/\ Passes(c)
        /\ \A j \in MostRecent(QuotedJobsOf(c)) : OthersServing(j, c) = {})
       => \E j \in MostRecent(QuotedJobsOf(c)) :
            /\ jobs'[j].status = "no_contractors_available"
            /\ KindsTo(CustomerPhoneOf(j), Len(sent'))
                 = <<"job_rejection", "no_contractors_available">>]_vars

\* The only active contractor has passed and the job has run out of contractors.
C9_Witness ==
  /\ lastOp.result = "job_passed"
  /\ \E j \in 1..Len(jobs) :
       /\ jobs[j].status = "no_contractors_available"
       /\ OthersServing(j, jobs[j].contractor_id) = {}
       /\ \E i \in 1..Len(sent) :
            sent[i].kind = "no_contractors_available" /\ sent[i].job = j

\* C10: when a contractor passes on their quoted job and another active
\* contractor serves its postal code, the job goes to the best-scored of those
\* other contractors, its stored estimate becomes the quote computed for that
\* contractor, and a new-job notification with that estimate goes to them.
C10_ReassignBest ==
  [][\A c \in 1..Len(contractors) :
       (/\ Passes(c)
        /\ \A j \in MostRecent(QuotedJobsOf(c)) : OthersServing(j, c) # {})
       => \E j \in MostRecent(QuotedJobsOf(c)) : \E n \in OthersServing(j, c) :
            /\ jobs'[j].contractor_id = n
            /\ \A o \in OthersServing(j, c) :
                 ContractorScore(jobs[j], contractors[o])
                   <= ContractorScore(jobs[j], contractors[n])
            /\ jobs'[j].estimated_cost_min = generateQuote(jobs[j], contractors[n]).minCost
            /\ jobs'[j].estimated_cost_max = generateQuote(jobs[j], contractors[n]).maxCost
            /\ \E i \in 1..Len(sent') :
                 /\ sent'[i].to = contractors[n].phone_number
                 /\ sent'[i].kind = "new_job_request"
                 /\ sent'[i].job = j
                 /\ sent'[i].min = jobs'[j].estimated_cost_min
                 /\ sent'[i].max = jobs'[j].estimated_cost_max]_vars

\* A passed job went to a contractor who was not the first of the other active
\* contractors, with a new estimate and a request to the new contractor.
C10_Witness ==
  /\ lastOp.result = "job_passed"
  /\ \E j \in 1..Len(jobs) : \E i \in 1..Len(sent) :
       /\ jobs[j].status = "contractor_passed"
       /\ sent[i].kind = "new_job_request"
       /\ sent[i].job = j
       /\ sent[i].to = contractors[jobs[j].contractor_id].phone_number
       /\ sent[i].min = jobs[j].estimated_cost_min
       /\ \E o \in OthersServing(j, jobs[j].contractor_id) : o < jobs[j].contractor_id

(***************************************************************************)
(* Properties of contractor onboarding.                                    *)
(***************************************************************************)
\* The rows of table contractors with a phone number.
ContractorsOf(rows, phone) == {i \in 1..Len(rows) : rows[i].phone_number = phone}

\* C11: the answer to the last onboarding question, from a number that has no
\* contractor, ends the conversation in IDLE with exactly one contractor for the
\* number, whose business name, base fee and hourly rate are the ones entered and
\* whose emergency markup is the percentage entered (25 for 0.25, 0 for none).
C11_OnboardingPersists ==
  [][\A p \in CustomerPhones, m \in OnboardingBodies("hours") :
       (/\ conv[p].state = "CONTRACTOR_ONBOARDING"
        /\ conv[p].context.step = "hours"
        /\ m.text # "CANCEL"
        /\ ContractorsOf(contractors, p) = {}
        /\ SmsWebhook(p, m, NoAi, FALSE, TRUE))
       => /\ conv'[p] = Idle
          /\ Cardinality(ContractorsOf(contractors', p)) = 1
          /\ \A i \in ContractorsOf(contractors', p) :
               /\ contractors'[i].business_name = conv[p].context.business_name
               /\ contractors'[i].base_service_fee = conv[p].context.base_service_fee
               /\ contractors'[i].hourly_rate = conv[p].context.hourly_rate
               /\ contractors'[i].emergency_markup = conv[p].context.emergency_markup]_vars

(***************************************************************************)
(* Properties of the customer's answer to a quote.                         *)
(***************************************************************************)
\* C12: in AWAITING_QUOTE_APPROVAL the answer YES or Y, in any case and between
\* blanks, when the job and the contractor of the context exist, assigns the
\* contractor to the job, makes the job quoted and moves the conversation to
\* AWAITING_CONTRACTOR_RESPONSE.
C12_YesQuotes ==
  [][\A p \in CustomerPhones, m \in Bodies \cup ReplyBodies :
       (/\ m.text \in {"YES", "Y"}
        /\ conv[p].state = "AWAITING_QUOTE_APPROVAL"
        /\ conv[p].context.job_id \in 1..Len(jobs)
        /\ conv[p].context.contractor_id \in 1..Len(contractors)
        /\ SmsWebhook(p, m, NoAi, FALSE, TRUE))
       => /\ jobs'[conv[p].context.job_id].contractor_id = conv[p].context.contractor_id
          /\ jobs'[conv[p].context.job_id].status = "quoted"
          /\ conv'[p].state = "AWAITING_CONTRACTOR_RESPONSE"]_vars

\* A customer has accepted a quote: the job is quoted and assigned.
C12_Witness ==
  /\ lastOp.name = "sms" /\ lastOp.result = "request_sent"
  /\ lastOp.conversation.state = "AWAITING_QUOTE_APPROVAL"
  /\ \E p \in CustomerPhones :
       /\ conv[p].state = "AWAITING_CONTRACTOR_RESPONSE"
       /\ conv[p].context.job_id \in 1..Len(jobs)
       /\ jobs[conv[p].context.job_id].status = "quoted"
       /\ jobs[conv[p].context.job_id].contractor_id = conv[p].context.contractor_id
       /\ conv[p].context.contractor_id # NoId

\* C13: when the customer's YES makes a job quoted, a new-job notification with
\* the job's estimate goes to the phone number of the assigned contractor.
C13_ContractorNotified ==
  [][\A p \in CustomerPhones, m \in Bodies \cup ReplyBodies :
       (/\ m.text \in {"YES", "Y"}
        /\ conv[p].state = "AWAITING_QUOTE_APPROVAL"
        /\ conv[p].context.job_id \in 1..Len(jobs)
        /\ conv[p].context.contractor_id \in 1..Len(contractors)
        /\ SmsWebhook(p, m, NoAi, FALSE, TRUE))
       => \E i \in 1..Len(sent') :
            /\ sent'[i].to = contractors[conv[p].context.contractor_id].phone_number
            /\ sent'[i].kind = "new_job_request"
            /\ sent'[i].job = conv[p].context.job_id]_vars

\* C14: in AWAITING_QUOTE_APPROVAL the answer NO or N, in any case and between
\* blanks, makes the job of the context cancelled and moves the conversation
\* to IDLE.
C14_NoCancels ==
  [][\A p \in CustomerPhones, m \in Bodies \cup ReplyBodies :
       (/\ m.text \in {"NO", "N"}
        /\ conv[p].state = "AWAITING_QUOTE_APPROVAL"
        /\ SmsWebhook(p, m, NoAi, FALSE, TRUE))
       => /\ conv[p].context.job_id \in 1..Len(jobs)
            => jobs'[conv[p].context.job_id].status = "cancelled"
          /\ conv'[p].state = "IDLE"]_vars

\* A customer has declined a quote: the job is cancelled.
C14_Witness ==
  /\ lastOp.name = "sms" /\ lastOp.result = "no_problem"
  /\ lastOp.conversation.state = "AWAITING_QUOTE_APPROVAL"
  /\ lastOp.conversation.context.job_id \in 1..Len(jobs)
  /\ jobs[lastOp.conversation.context.job_id].status = "cancelled"
  /\ \A p \in CustomerPhones : conv[p].state = "IDLE"

(***************************************************************************)
(* The quoting functions alone.  QuotingEngine and AIConversationEngine    *)
(* are exported, so generateQuote and findBestContractor are called with   *)
(* any job and any contractor rows.  The arguments are drawn at the start; *)
(* each call leaves its return value in lastOp.                            *)
(***************************************************************************)
MaxCandidates == 2

\* Profiles as onboarding stores them: fee and rate not negative, the markup
\* a positive percentage.
QuoteProfiles ==
  {[SeedContractors[1] EXCEPT !.base_service_fee = f, !.hourly_rate = r,
                              !.emergency_markup = m] :
     f \in {0, 75, 300}, r \in {0, 40, 100}, m \in {10, 50}}

\* The profiles of the rows after the first: they differ in fee and markup.
RivalProfiles == {c \in QuoteProfiles : c.base_service_fee > 0 /\ c.hourly_rate = 100}

\* Rows as db.findAvailableContractors returns them: id is the place in the list.
QuoteCandidates ==
  UNION {{[i \in 1..n |-> [id |-> i] @@ list[i]] :
            list \in {l \in [1..n -> QuoteProfiles] :
                       \A i \in 2..n : l[i] \in RivalProfiles}} :
           n \in 0..MaxCandidates}

QuoteJobs ==
  {[problem_description |-> d, service_category |-> c, urgency_level |-> u] :
     d \in {"kitchen sink is leaking", "install a ceiling fan",
            "major remodel, assemble shelves", "tighten a door handle",
            "it is broken"},
     c \in {"plumbing", "electrical", "hvac", "general_handyman", "roofing", "other"},
     u \in {"low", "medium", "high", "emergency", "unknown"}}

InitQuote ==
  /\ contractors = SeedContractors
  /\ customers = <<>>
  /\ jobs = <<>>
  /\ conv = [p \in Phones |-> [state |-> "IDLE", context |-> EmptyContext]]
  /\ registry = EmptyRegistry
  /\ tasks = <<>>
  /\ now = 0
  /\ sent = <<>>
  /\ gateway = TRUE
  /\ awaiting = <<>>
  /\ \E job \in QuoteJobs, candidates \in QuoteCandidates :
       lastOp = [NoOp EXCEPT !.quote.job = job, !.quote.candidates = candidates]

\* The call returns; nothing else changes.
Return(name, contractor, minCost, maxCost) ==
  /\ lastOp' = [lastOp EXCEPT !.name = name, !.quote.contractor = contractor,
                              !.quote.minCost = minCost, !.quote.maxCost = maxCost]
  /\ UNCHANGED <<contractors, customers, jobs, conv, registry, tasks, now, sent, gateway,
               awaiting>>

\* quoting.generateQuote(jobDetails, contractor)
CallGenerateQuote ==
  /\ lastOp.name = "none"
  /\ Len(lastOp.quote.candidates) > 0
  /\ LET Quoted(quote) == Return("generateQuote", NoId, quote.minCost, quote.maxCost)
     IN  Quoted(generateQuote(lastOp.quote.job, lastOp.quote.candidates[1]))

\* ai.generateQuote(context, contractor)
CallSimpleQuote ==
  /\ lastOp.name = "none"
  /\ Len(lastOp.quote.candidates) > 0
  /\ LET Quoted(quote) == Return("simpleQuote", NoId, quote.minCost, quote.maxCost)
     IN  Quoted(simpleQuote(lastOp.quote.job.urgency_level, lastOp.quote.candidates[1]))

\* quoting.findBestContractor(jobDetails, availableContractors); a call without
\* the list is recorded as "findBestContractor_missing".
CallFindBestContractor ==
  /\ lastOp.name = "none"
  /\ \/ LET Found(bestMatch) ==
              Return("findBestContractor", bestMatch.contractor,
                     bestMatch.quote.minCost, bestMatch.quote.maxCost)
        IN  Found(findBestContractor(lastOp.quote.job, lastOp.quote.candidates))
     \/ /\ lastOp.quote.candidates = <<>>
        /\ Return("findBestContractor_missing", NoId, NoNum, NoNum)

NextQuote == CallGenerateQuote \/ CallSimpleQuote \/ CallFindBestContractor

QuoteSpec == InitQuote /\ [][NextQuote]_vars

(***************************************************************************)
(* Properties of the quoting functions                                     *)
(***************************************************************************)
\* C15: for every description, category, urgency level and contractor profile
\* with non-negative fee and rate, the detailed generateQuote returns
\* minCost <= maxCost, minCost >= baseFee + 0.5 * hourlyRate and
\* maxCost >= minCost + 50 (costs in cents here).
C15_QuoteBounds ==
  lastOp.name = "generateQuote" =>
    LET quote == lastOp.quote
        contractor == lastOp.quote.candidates[1]
    IN  /\ quote.minCost <= quote.maxCost
        /\ quote.minCost >= 100 * contractor.base_service_fee + 50 * contractor.hourly_rate
        /\ quote.maxCost >= quote.minCost + 5000

\* A quote in which both floors decide: the minimum is the fee plus half an
\* hour, the maximum is the minimum plus 50.
C15_Witness ==
  /\ lastOp.name = "generateQuote"
  /\ lastOp.quote.candidates[1].base_service_fee > 0
  /\ lastOp.quote.candidates[1].hourly_rate > 0
  /\ lastOp.quote.minCost = 100 * lastOp.quote.candidates[1].base_service_fee
                              + 50 * lastOp.quote.candidates[1].hourly_rate
  /\ lastOp.quote.maxCost = lastOp.quote.minCost + 5000

C17_FirstOfMaximalScore ==
  LET quote == lastOp.quote
      n == Len(lastOp.quote.candidates)
      score(i) == ContractorScore(lastOp.quote.job, lastOp.quote.candidates[i])
  IN  /\ lastOp.name = "findBestContractor_missing" => quote.contractor = NoId
      /\ lastOp.name = "findBestContractor" /\ n = 0 => quote.contractor = NoId
      /\ lastOp.name = "findBestContractor" /\ n > 0 =>
           \E i \in 1..n :
             /\ quote.contractor = quote.candidates[i].id
             /\ \A j \in 1..n : score(j) <= score(i)
             /\ \A j \in 1..(i - 1) : score(j) < score(i)

\* Two candidates of equal score, and the first one returned.
C17_Witness ==
  /\ lastOp.name = "findBestContractor"
  /\ Len(lastOp.quote.candidates) = 2
  /\ ContractorScore(lastOp.quote.job, lastOp.quote.candidates[1])
       = ContractorScore(lastOp.quote.job, lastOp.quote.candidates[2])
  /\ lastOp.quote.candidates[1] # lastOp.quote.candidates[2]
  /\ lastOp.quote.contractor = 1

(***************************************************************************)
(* The message channel interleaved with the availability route: between    *)
(* any two messages a contractor may be switched off or on.                *)
(***************************************************************************)
\* What takes a job to an assignment: the request, the customer's YES and a
\* contractor's pass.
NextAssign ==
  \/ ReceiveOf(Phones, {Lit(t) : t \in {"MY SINK LEAKS", "YES", "X"}})
  \/ Availability
  \/ \E jobId \in 1..MaxJobs : ApiRespond(jobId, "pass", NoNum)

AssignSpec == Init /\ [][NextAssign]_vars

(***************************************************************************)
(* Properties of the assignment of contractors                             *)
(***************************************************************************)
\* C18: whenever a step assigns a contractor to a job, by the customer's YES
\* or by the reassignment after a pass, that contractor is active at that
\* moment, also when the availability route switched the contractor off after
\* the quote was shown.
C18_AssignedIsActive ==
  [][\A j \in 1..Len(jobs') :
       /\ jobs'[j].contractor_id # NoId
       /\ j > Len(jobs) \/ jobs[j].contractor_id # jobs'[j].contractor_id
       => contractors'[jobs'[j].contractor_id].is_active]_vars

(***************************************************************************)
(* The message channel after a first approved job, with the contractor's   *)
(* custom quote and invoice commands, and the scheduler's completion of a  *)
(* job.                                                                    *)
(***************************************************************************)
NextCommand ==
  \/ ReceiveOf(Phones, {Lit(t) : t \in {"CANCEL", "MY SINK LEAKS", "YES"}} \cup CommandBodies)
  \/ Complete

CommandSpec == InitApproved /\ [][NextCommand]_vars

(***************************************************************************)
(* Properties of the contractor's invoice and custom quote commands        *)
(***************************************************************************)
\* The completed jobs of contractor c that have not been invoiced.
UninvoicedJobsOf(c) ==
  {j \in 1..Len(jobs) :
     jobs[j].contractor_id = c /\ jobs[j].status = "completed" /\ ~jobs[j].invoice_sent}

\* C19: a contractor's well-formed INVOICE <positive amount> <description>,
\* sent while the contractor has a completed job whose invoice-sent flag is
\* unset, sends exactly one invoice notification to that job's customer and
\* sets that job's invoice-sent flag.
C19_InvoiceSent ==
  [][\A c \in 1..Len(contractors), m \in CommandBodies, tieAsc \in BOOLEAN :
       (/\ parseContractorResponse(m).action = "invoice"
        /\ UninvoicedJobsOf(c) # {}
        /\ SmsWebhook(contractors[c].phone_number, m, NoAi, FALSE, tieAsc))
       => \E j \in UninvoicedJobsOf(c) :
            /\ Cardinality({i \in SentTo(CustomerPhoneOf(j)) : sent'[i].kind = "invoice"}) = 1
            /\ jobs'[j].invoice_sent]_vars

\* C20: a contractor's Q <amount> with a positive amount, sent while the
\* contractor has a quoted job, sets the final quote of that contractor's
\* pending quoted job to the amount, sends the custom quote to that job's
\* customer, and leaves the final quote of every other job unchanged.
C20_CustomQuoteOnlyThatJob ==
  [][\A c \in 1..Len(contractors), m \in CommandBodies, tieAsc \in BOOLEAN :
       (/\ parseContractorResponse(m).action = "custom_quote"
        /\ QuotedJobsOf(c) # {}
        /\ SmsWebhook(contractors[c].phone_number, m, NoAi, FALSE, tieAsc))
       => \E j \in MostRecent(QuotedJobsOf(c)) :
            /\ jobs'[j].final_quote = parseContractorResponse(m).amount
            /\ \E i \in SentTo(CustomerPhoneOf(j)) :
                 /\ sent'[i].kind = "custom_quote"
                 /\ sent'[i].lo = parseContractorResponse(m).amount
            /\ \A k \in 1..Len(jobs) : k # j => jobs'[k].final_quote = jobs[k].final_quote]_vars

(***************************************************************************)
(* Properties of the completion of a job                                   *)
(***************************************************************************)
\* C21: markJobCompleted(jobId, contractorPhone), when the job exists and is
\* assigned to the contractor with that phone, sets the job's status to
\* completed, stamps its completion time, sends one invoice request to the
\* contractor and registers one follow-up timer of the job for 18:00 of the
\* following day; otherwise it reports failure and changes nothing.
C21_CompletionEffects ==
  [][\A jobId \in 1..MaxJobs, contractorPhone \in {PlumberPhone, ElectricianPhone} :
       CallMarkJobCompleted(jobId, contractorPhone) =>
         IF /\ jobId \in 1..Len(jobs)
            /\ getContractorByPhone(World, contractorPhone) # NoId
            /\ jobs[jobId].contractor_id = getContractorByPhone(World, contractorPhone)
         THEN /\ jobs'[jobId].status = "completed"
              /\ jobs'[jobId].completion_date = now
              /\ Cardinality({i \in SentTo(contractorPhone) :
                                sent'[i].kind = "invoice_request"}) = 1
              /\ Key("followup", jobId) \in DOMAIN registry'
              /\ tasks'[registry'[Key("followup", jobId)]].expr
                   = dateToCronExpression((Today + 1) * HoursPerDay + 18)
              /\ Cardinality({i \in 1..Len(tasks') \ (1..Len(tasks)) :
                                tasks'[i].kind = "followup" /\ tasks'[i].job = jobId}) = 1
         ELSE /\ lastOp'.result # "success"
              /\ UNCHANGED <<contractors, customers, jobs, conv, registry, tasks>>
              /\ sent' = <<>>]_vars

Outage ==
  /\ gateway' = ~gateway
  /\ sent' = <<>>
  /\ lastOp' = [NoOp EXCEPT !.name = "outage"]
  /\ UNCHANGED <<contractors, customers, jobs, conv, registry, tasks, now, awaiting>>

NextStatus ==
  \/ ReceiveOf(Phones, {Lit(t) : t \in {"MY SINK LEAKS", "YES", "A", "X", "JOB DONE"}})
  \/ UpdateStatus
  \/ Schedule
  \/ \E jobId \in 1..MaxJobs : ApiRespond(jobId, "approve", NoNum)
  \/ Outage

StatusSpec == Init /\ [][NextStatus]_vars

\* C23: the side effects of a status transition happen once per transition: a
\* status update that requests the status the job already has (through the
\* dashboard's status route, the respond route, or JOB DONE from a contractor
\* with a completed job and none in progress) sends no notification and
\* registers no timer.
C23_NoRepeatedSideEffects ==
  [][LET Nothing == sent' = <<>> /\ tasks' = tasks /\ registry' = registry
     IN  /\ \A contractorId \in SessionContractors, jobId \in 1..MaxJobs, status \in validStatuses :
              (/\ jobOfContractor(World, jobId, contractorId) # NoId
               /\ jobs[jobId].status = status
               /\ DashboardStatus(contractorId, jobId, status)) => Nothing
         /\ \A jobId \in 1..Len(jobs) :
              (jobs[jobId].status = "approved" /\ ApiRespond(jobId, "approve", NoNum))
              => Nothing
         /\ \A c \in 1..Len(contractors), tieAsc \in BOOLEAN :
              (/\ \E j \in 1..Len(jobs) :
                    jobs[j].contractor_id = c /\ jobs[j].status = "completed"
               /\ \A j \in 1..Len(jobs) :
                    jobs[j].contractor_id = c => jobs[j].status # "in_progress"
               /\ SmsWebhook(contractors[c].phone_number, Lit("JOB DONE"), NoAi, FALSE, tieAsc))
              => Nothing]_vars

C25_CancelCancelsJob ==
  [][\A p \in CustomerPhones :
       SmsWebhook(p, Lit("CANCEL"), NoAi, FALSE, TRUE)
       => \A j \in 1..Len(jobs) :
            (CustomerPhoneOf(j) = p /\ jobs[j].status \in {"approved", "scheduled"})
            => jobs'[j].status = "cancelled"]_vars

(***************************************************************************)
(* The reminder callbacks, on a database whose first contractor has the    *)
(* phone number the callbacks look the contractor up by.                   *)
(***************************************************************************)
NextReminder ==
  \/ Respond
  \/ ScheduleJob
  \/ Remind
  \/ Tick
  \/ Fire

ReminderSpec ==
  /\ StartIn([ApprovedWorld EXCEPT !.contractors[1].phone_number = PlaceholderPhone])
  /\ [][NextReminder]_vars

\* C26: when a day-before or day-of reminder fires for a job that is not in
\* status scheduled, or that does not exist, the callback sends no notification
\* and changes no job.
C26_StaleReminderIsSilent ==
  [][\A i \in 1..MaxTasks :
       (/\ FireTimer(i)
        /\ tasks[i].kind \in ReminderKinds
        /\ getJobById(World, tasks[i].job) = NoId \/ jobs[tasks[i].job].status # "scheduled")
       => sent' = <<>> /\ jobs' = jobs]_vars

C26_Witness ==
  /\ lastOp.name = "timer"
  /\ sent = <<>>
  /\ \E i \in 1..Len(tasks) :
       /\ tasks[i].job = lastOp.job
       /\ tasks[i].kind = "day_of"
       /\ tasks[i].runs > 0
       /\ ~tasks[i].due
  /\ jobs[lastOp.job].status # "scheduled"

(***************************************************************************)
(* Properties of replies the conversation engine does not accept           *)
(***************************************************************************)
\* C27: a customer's message other than CANCEL that is not an accepted reply in
\* the current state (anything but YES, Y, NO, N while a quote awaits approval;
\* any text while the contractor's response is awaited or the job is
\* scheduled) gets a reply and leaves the conversation's state and context and
\* every job's status and assignment unchanged.
C27_UnacceptedReplyChangesNothing ==
  [][\A p \in CustomerPhones, m \in Bodies \cup SetupBodies \cup ReplyBodies :
       (/\ m.text # "CANCEL"
        /\ \/ conv[p].state = "AWAITING_QUOTE_APPROVAL" /\ m.text \notin {"YES", "Y", "NO", "N"}
           \/ conv[p].state \in {"AWAITING_CONTRACTOR_RESPONSE", "JOB_SCHEDULED"}
        /\ SmsWebhook(p, m, NoAi, FALSE, TRUE))
       => /\ conv'[p] = conv[p]
          /\ lastOp'.result # ""
          /\ Len(jobs') = Len(jobs)
          /\ \A j \in 1..Len(jobs) :
               /\ jobs'[j].status = jobs[j].status
               /\ jobs'[j].contractor_id = jobs[j].contractor_id]_vars

\* A customer who was asked to approve a quote has sent something else and is
\* still asked.
C27_Witness ==
  /\ lastOp.name = "sms"
  /\ lastOp.result = "reply_yes_or_no"
  /\ lastOp.conversation.state = "AWAITING_QUOTE_APPROVAL"
  /\ \E p \in CustomerPhones : conv[p] = lastOp.conversation

(***************************************************************************)
(* Properties of contractor onboarding                                     *)
(***************************************************************************)
\* The answers a validated onboarding step is to refuse: a text without a group
\* of five digits at the postal code, a text that starts with no number and a
\* negative number at the fee, the rate and the markup.
RefusedAnswers(step) ==
  CASE step = "service_area" -> {"75"}
    [] step \in {"service_fee", "hourly_rate", "emergency_markup"} -> {"A", "-5"}
    [] OTHER -> {}

RefusalOf(step) ==
  CASE step = "service_area" -> "invalid_zip"
    [] step = "service_fee" -> "invalid_service_fee"
    [] step = "hourly_rate" -> "invalid_hourly_rate"
    [] OTHER -> "invalid_markup"

\* C29: during onboarding an invalid answer at a validated step (no group of
\* five digits at the postal code; no number or a negative number at the base
\* fee, the hourly rate or the markup) gets the step's corrective prompt,
\* leaves the conversation's state, step and context unchanged and creates no
\* contractor.
C29_InvalidAnswerReprompts ==
  [][\A p \in CustomerPhones :
       \A t \in RefusedAnswers(conv[p].context.step) :
         (conv[p].state = "CONTRACTOR_ONBOARDING" /\ SmsWebhook(p, Lit(t), NoAi, FALSE, TRUE))
         => /\ lastOp'.result = RefusalOf(conv[p].context.step)
            /\ conv'[p] = conv[p]
            /\ contractors' = contractors]_vars

\* A contractor in onboarding has answered the markup question with a text that
\* is no number and is still at that step.
C29_Witness ==
  /\ lastOp.name = "sms"
  /\ lastOp.result = "invalid_markup"
  /\ \E p \in CustomerPhones :
       /\ conv[p] = lastOp.conversation
       /\ conv[p].state = "CONTRACTOR_ONBOARDING"
       /\ conv[p].context.step = "emergency_markup"
       /\ conv[p].context.hourly_rate = 100

(***************************************************************************)
(* Properties of the webhook's replies                                     *)
(***************************************************************************)
\* C30: processing one inbound message produces at most one outbound message to
\* its sender, the reply in the webhook's response and the messages handed to
\* the gateway counted together; so for a contractor's command that both the
\* special-command path and the conversation engine handle.
C30_AtMostOneReply ==
  [][\A p \in Phones, t \in {"MY SINK LEAKS", "YES", "X"} :
       \A ai \in AiChoices(p, Lit(t)), sameSecond \in BOOLEAN, tieAsc \in BOOLEAN :
         SmsWebhook(p, Lit(t), ai, sameSecond, tieAsc)
         => Cardinality(SentTo(p)) + (IF lastOp'.result # "" THEN 1 ELSE 0) <= 1]_vars

(***************************************************************************)
(* Overlapping webhook requests.  POST /sms is an async function: at       *)
(* await this.openai.chat.completions.create(...) the handler is suspended *)
(* and the server takes the next request.  What it read before the call    *)
(* (the conversation's state, by which processMessage chose the handler)   *)
(* is not read again when it resumes.                                      *)
(***************************************************************************)
MaxAwaiting == 2

\* POST /sms up to the language model's call in handleSmartConversation: the
\* message is no command, the state selects handleSmartConversation, the sender
\* is no contractor; the customer row is created when missing.  The handler
\* remembers the tables as it found them and the message it overlaps with.
SmsBegin(fromNumber, messageBody) ==
  /\ AiChoices(fromNumber, messageBody) = AiOutcomes
  /\ awaiting = <<>> \/ (Len(awaiting) < MaxAwaiting /\ \A i \in 1..Len(awaiting) : awaiting[i].alone)
  /\ customers' = IF getCustomerByPhone(World, fromNumber) = NoId
                  THEN createCustomer(World, fromNumber).customers ELSE customers
  /\ awaiting' =
       Append([i \in 1..Len(awaiting) |->
                 [awaiting[i] EXCEPT !.alone = FALSE, !.other = messageBody]],
              [phone |-> fromNumber, message |-> messageBody,
               alone |-> awaiting = <<>>,
               other |-> IF awaiting = <<>> THEN messageBody ELSE awaiting[1].message,
               start |-> IF awaiting = <<>>
                         THEN [conv |-> conv, jobs |-> jobs, customers |-> customers]
                         ELSE awaiting[1].start])
  /\ sent' = <<>>
  /\ lastOp' = [NoOp EXCEPT !.name = "sms_awaiting", !.conversation = conv[fromNumber]]
  /\ UNCHANGED <<contractors, jobs, conv, registry, tasks, now, gateway>>

\* The language model's call returns and handler i runs to its end on the
\* tables as they are now.
SmsResume(i, ai, sameSecond) ==
  /\ i \in 1..Len(awaiting)
  /\ LET Done(r) ==
           /\ Len(r.world.jobs) <= MaxJobs
           /\ customers' = r.world.customers
           /\ jobs' = r.world.jobs
           /\ conv' = r.world.conv
           /\ sent' = r.world.sent
           /\ lastOp' = [NoOp EXCEPT !.name = "sms_resumed", !.result = r.reply,
                                     !.conversation = conv[awaiting[i].phone]]
     IN  Done(handleSmartConversation(World, awaiting[i].phone, awaiting[i].message, ai,
                                      sameSecond))
  /\ awaiting' = SubSeq(awaiting, 1, i - 1) \o SubSeq(awaiting, i + 1, Len(awaiting))
  /\ UNCHANGED <<contractors, registry, tasks, now, gateway>>

ConcSpec ==
  /\ Init
  /\ [][\/ /\ awaiting = <<>> \/ (Len(awaiting) = 1 /\ ~awaiting[1].alone)
           /\ ReceiveOf(CustomerPhones,
                        {Lit(t) : t \in {"MY SINK LEAKS", "YES", "NO", "CANCEL"}})
        \/ \E p \in CustomerPhones : SmsBegin(p, Lit("MY SINK LEAKS"))
        \/ \E i \in 1..MaxAwaiting, ai \in AiOutcomes, sameSecond \in BOOLEAN :
             SmsResume(i, ai, sameSecond)]_vars

\* The conversation of phone p and the jobs table after message a and then
\* message b were handled one after the other on the tables in start, for every
\* answer of the language model and every second of insertion.
SerialOutcomes(start, p, a, b) ==
  LET W0 == [World EXCEPT !.conv = start.conv, !.jobs = start.jobs,
                          !.customers = start.customers]
      Handle(W, m, ai, sameSecond) ==
        processMessage(handleSpecialCommands([W EXCEPT !.sent = <<>>], p, m, TRUE, now),
                       p, m, ai, sameSecond).world
      Outcome(W) == [conversation |-> W.conv[p], jobs |-> W.jobs]
  IN  {Outcome(Handle(Handle(W0, a, ai1, s1), b, ai2, s2)) :
         ai1 \in AiOutcomes, ai2 \in AiOutcomes, s1 \in BOOLEAN, s2 \in BOOLEAN}

\* C31: messages of one phone number are handled as by a single writer: when
\* the second of two overlapping handlers of the same number ends, right
\* after the first and with no message taken in between, the
\* conversation and the jobs table are what handling the two messages one
\* after the other, in one of the two orders, would have left.
C31_SingleWriterPerPhone ==
  [][\A i \in 1..MaxAwaiting, ai \in AiOutcomes, sameSecond \in BOOLEAN :
       (/\ Len(awaiting) = 1
        /\ i = 1
        /\ ~awaiting[1].alone
        /\ lastOp.name = "sms_resumed"
        /\ SmsResume(i, ai, sameSecond))
       => [conversation |-> conv'[awaiting[1].phone], jobs |-> jobs']
            \in SerialOutcomes(awaiting[1].start, awaiting[1].phone,
                               awaiting[1].message, awaiting[1].other)
                \cup SerialOutcomes(awaiting[1].start, awaiting[1].phone,
                                    awaiting[1].other, awaiting[1].message)]_vars

\* C35: no operation puts a conversation into JOB_SCHEDULED, and a
\* conversation in AWAITING_CONTRACTOR_RESPONSE leaves that state only in a
\* step in which its own number's message CANCEL is handled.
C35_ContractorResponseIsSticky ==
  [][\A p \in Phones :
       /\ conv[p].state # "JOB_SCHEDULED" => conv'[p].state # "JOB_SCHEDULED"
       /\ (/\ conv[p].state = "AWAITING_CONTRACTOR_RESPONSE"
           /\ conv'[p].state # "AWAITING_CONTRACTOR_RESPONSE")
          => \E ai \in AiChoices(p, Lit("CANCEL")), sameSecond \in BOOLEAN, tieAsc \in BOOLEAN :
               SmsWebhook(p, Lit("CANCEL"), ai, sameSecond, tieAsc)]_vars

(***************************************************************************)
(* Properties of the two entry paths of a contractor's pass                *)
(***************************************************************************)
\* The tables and messages the text command X of job j's contractor leaves.
TextPass(j) ==
  handleSpecialCommands(World, contractors[jobs[j].contractor_id].phone_number, Lit("X"),
                        TRUE, now)

\* The new-job notifications among the messages of a sequence.
JobRequests(messages) ==
  {messages[i] : i \in {k \in 1..Len(messages) : messages[k].kind = "new_job_request"}}

\* C32: a contractor's pass on a quoted job made through the respond route
\* leaves the job in the same status and with the same contractor, and sends
\* the same new-job notifications of the search for an alternative
\* contractor, as the pass made through the text command X.
C32_PassSameOnBothPaths ==
  [][\A j \in 1..Len(jobs) :
       (/\ jobs[j].status = "quoted"
        /\ jobs[j].contractor_id \in 1..Len(contractors)
        /\ QuotedJobsOf(jobs[j].contractor_id) = {j}
        /\ ApiRespond(j, "pass", NoNum))
       => /\ jobs'[j].status = TextPass(j).jobs[j].status
          /\ jobs'[j].contractor_id = TextPass(j).jobs[j].contractor_id
          /\ JobRequests(sent') = JobRequests(TextPass(j).sent)]_vars

(***************************************************************************)
(* Properties of the recipients of reminders                               *)
(***************************************************************************)
\* C33: when a day-before or day-of reminder fires for a job that is still
\* scheduled, the notification goes to the phone number of the contractor
\* assigned to the job and, for the day-before reminder, also to the phone
\* number of the job's customer, and to nobody else.
C33_ReminderRecipients ==
  [][\A i \in 1..MaxTasks :
       (/\ FireTimer(i)
        /\ tasks[i].kind \in ReminderKinds
        /\ getJobById(World, tasks[i].job) # NoId
        /\ jobs[tasks[i].job].status = "scheduled"
        /\ jobs[tasks[i].job].contractor_id \in 1..Len(contractors))
       => {sent'[k].to : k \in 1..Len(sent')}
            = {contractors[jobs[tasks[i].job].contractor_id].phone_number}
                \cup (IF tasks[i].kind = "day_before"
                      THEN {CustomerPhoneOf(tasks[i].job)} ELSE {})]_vars

(***************************************************************************)
(* Invariants of the conversations                                         *)
(***************************************************************************)
\* C34: every conversation whose state is IDLE has the empty context: each
\* operation that writes IDLE writes the empty context with it.
C34_IdleHasEmptyContext ==
  \A p \in Phones : conv[p].state = "IDLE" => conv[p].context = EmptyContext

\* A customer who was asked to approve a quote, with a job in the context, has
\* sent CANCEL and is in IDLE.
C34_Witness ==
  /\ lastOp.name = "sms"
  /\ lastOp.result = "conversation_reset"
  /\ lastOp.conversation.state = "AWAITING_QUOTE_APPROVAL"
  /\ lastOp.conversation.context.job_id # NoId
  /\ \E p \in CustomerPhones : conv[p].state = "IDLE"

(***************************************************************************)
(* Properties of a conversation that waits for the customer's answer       *)
(***************************************************************************)
\* C36: whenever a conversation is in AWAITING_QUOTE_APPROVAL, its context
\* names a job that exists, is pending and has no contractor assigned, and
\* names the contractor whose quote was shown: a stored contractor from whose
\* profile the job's estimate was computed.
C36_ApprovalContextNamesPendingJob ==
  \A p \in Phones :
    conv[p].state = "AWAITING_QUOTE_APPROVAL"
    => LET context == conv[p].context
       IN  /\ context.job_id \in 1..Len(jobs)
           /\ context.contractor_id \in 1..Len(contractors)
           /\ LET job == jobs[context.job_id]
                  quote == simpleQuote(job.urgency_level, contractors[context.contractor_id])
              IN  /\ job.status = "pending"
                  /\ job.contractor_id = NoId
                  /\ job.estimated_cost_min = quote.minCost
                  /\ job.estimated_cost_max = quote.maxCost

\* A customer is waiting for their answer while a contractor's command has
\* just been handled.
C36_Witness ==
  /\ \E p \in Phones : conv[p].state = "AWAITING_QUOTE_APPROVAL"
  /\ lastOp.name = "sms"
  /\ lastOp.result \in {"job_approved", "job_passed", "command_help", "contractor_commands"}

(***************************************************************************)
(* Properties of the scheduler's registry                                  *)
(***************************************************************************)
\* C37: every armed one-shot timer is recorded in the scheduler's registry
\* under the key of its own job and purpose, and no two armed timers have the
\* same job and purpose; so cancelJobReminders and stop, which destroy what
\* the registry records, leave no armed timer behind.
C37_ArmedTimersAreRegistered ==
  /\ \A i \in 1..Len(tasks) :
       tasks[i].armed
       => /\ Key(tasks[i].kind, tasks[i].job) \in DOMAIN registry
          /\ registry[Key(tasks[i].kind, tasks[i].job)] = i
  /\ \A i, j \in 1..Len(tasks) :
       (/\ tasks[i].armed /\ tasks[j].armed
        /\ tasks[i].kind = tasks[j].kind /\ tasks[i].job = tasks[j].job)
       => i = j

(***************************************************************************)
(* Properties of the order of the urgency levels                           *)
(***************************************************************************)
\* The urgency levels below a level in the order low, medium, high, emergency.
LowerUrgencies(urgency) ==
  CASE urgency = "medium" -> {"low"}
    [] urgency = "high" -> {"low", "medium"}
    [] urgency = "emergency" -> {"low", "medium", "high"}
    [] OTHER -> {}

\* C38: for a contractor whose emergency markup is not negative, the minimum
\* and the maximum estimate of a job at an urgency level are each at least
\* the estimate of the same job and contractor at every lower level of
\* low, medium, high, emergency, in the detailed and in the simple model.
C38_EstimateMonotoneInUrgency ==
  LET quote == lastOp.quote
      AtLeast(lower) == quote.minCost >= lower.minCost /\ quote.maxCost >= lower.maxCost
  IN  /\ lastOp.name = "generateQuote" /\ quote.candidates[1].emergency_markup >= 0 =>
           \A u \in LowerUrgencies(quote.job.urgency_level) :
             AtLeast(generateQuote([quote.job EXCEPT !.urgency_level = u],
                                   quote.candidates[1]))
      /\ lastOp.name = "simpleQuote" /\ quote.candidates[1].emergency_markup >= 0 =>
           \A u \in LowerUrgencies(quote.job.urgency_level) :
             AtLeast(simpleQuote(u, quote.candidates[1]))

(***************************************************************************)
(* Properties of a job after its reassignment                              *)
(***************************************************************************)
\* C39: when a contractor's pass has just reassigned job j to another
\* contractor (the new-job request went to that contractor's phone) and that
\* contractor, who has no other request waiting, then sends A, job j becomes
\* approved and a job-approval notification goes to the job's customer.
C39_ReassignedJobCanBeApproved ==
  [][\A j \in 1..Len(jobs), tieAsc \in BOOLEAN :
       (/\ lastOp.name = "sms" /\ lastOp.result = "job_passed"
        /\ gateway
        /\ jobs[j].contractor_id \in 1..Len(contractors)
        /\ \E i \in 1..Len(sent) :
             /\ sent[i].kind = "new_job_request" /\ sent[i].job = j
             /\ sent[i].to = contractors[jobs[j].contractor_id].phone_number
        /\ \A k \in QuotedJobsOf(jobs[j].contractor_id) : k = j
        /\ SmsWebhook(contractors[jobs[j].contractor_id].phone_number, Lit("A"), NoAi,
                      FALSE, tieAsc))
       => /\ jobs'[j].status = "approved"
          /\ \E i \in SentTo(CustomerPhoneOf(j)) :
               sent'[i].kind = "job_approval" /\ sent'[i].job = j]_vars

(***************************************************************************)
(* Properties of the dashboard's job routes                                *)
(***************************************************************************)
\* The dashboard named job jobId in a session of contractorId, and the job
\* does not exist or is not assigned to that contractor.
NotOwnJob(contractorId, jobId) ==
  jobId \notin 1..Len(jobs) \/ jobs[jobId].contractor_id # contractorId

\* The request was answered with an error and changed no job, armed no timer
\* and sent nothing.
RefusedUnchanged ==
  /\ lastOp'.result \in {"400", "404"}
  /\ jobs' = jobs /\ registry' = registry /\ tasks' = tasks /\ sent' = <<>>

\* C40: the dashboard's status and schedule routes change only jobs of the
\* session's contractor: a request that names a job of another contractor or
\* of none, or a status outside the allowed list, is answered with an error
\* and leaves every job, the registry and the timers as they were; any other
\* request changes at most the job it names.
C40_DashboardOnlyOwnJobs ==
  [][\A contractorId \in SessionContractors, jobId \in 1..MaxJobs :
       /\ \A status \in validStatuses \cup {"contractor_passed"} :
            DashboardStatus(contractorId, jobId, status)
            => /\ (NotOwnJob(contractorId, jobId) \/ status \notin validStatuses)
                    => RefusedUnchanged
               /\ \A k \in 1..Len(jobs) : k # jobId => jobs'[k] = jobs[k]
       /\ \A date \in ScheduleDates, time \in {"09:00", "undefined"} :
            DashboardSchedule(contractorId, jobId, date, time)
            => /\ NotOwnJob(contractorId, jobId) => RefusedUnchanged
               /\ \A k \in 1..Len(jobs) : k # jobId => jobs'[k] = jobs[k]]_vars

\* The schedule route has refused a job that is assigned to a contractor.
C40_Witness ==
  /\ lastOp.name = "dashboard_schedule" /\ lastOp.result = "404"
  /\ lastOp.job \in 1..Len(jobs)
  /\ jobs[lastOp.job].contractor_id # NoId

====
